---- MODULE Spec2Model ----
(***************************************************************************)
(* State-machine model of the checkout backend (src/server.js): the        *)
(* in-memory order store, the create_preference handler, the Mercado Pago  *)
(* webhook reconciler, the JSON query endpoints and the rate limiter.      *)
(*                                                                         *)
(* Conventions                                                             *)
(*  - A JS string is a sequence of tokens; the token " " is whitespace.    *)
(*    An absent (undefined / null) string field is the empty sequence,     *)
(*    which is what String(v ?? "") makes of it.                           *)
(*  - A JS number is a record [k, n, half]: k = "num" for the finite value *)
(*    n + (half ? 0.5 : 0), "nan" for NaN, "inf" for +Infinity.  Raw JSON  *)
(*    values add k = "undef" (field absent) and k = "null".                *)
(*  - JS null is the record Null; a missing property is a missing field.   *)
(*  - A handler runs without interruption from one await to the next (the  *)
(*    Node event loop), so each action is one such synchronous run.        *)
(*  - `ev` records the last handler run: which branch it took, what it     *)
(*    sent on the wire, in order, and the handler's local values.          *)
(***************************************************************************)
EXTENDS Integers, Sequences, FiniteSets, TLC

\* ------------------------------------------------------------------------
\* Bounds of the model
\* ------------------------------------------------------------------------
MaxOrders == 2      \* order ids generated in a run
MaxPending == 2     \* handlers suspended on an external call at one time
MaxClock == 2       \* clock readings, in ticks of TickMs
MaxPaymentId == 1   \* payment ids the processor knows
MaxOverLimit == 2   \* requests counted beyond a rate limiter's max
MaxLimiterClock == 4  \* clock readings where the rate-limit windows are followed

\* ------------------------------------------------------------------------
\* Program constants
\* ------------------------------------------------------------------------
DELIVERY_COST == 4990
windowMs == 60000
limitCheckoutMax == 30
limitWebhookMax == 120
maxItems == 50
maxQuantity == 99
axiosTimeoutMs == 15000
\* Date.now() advances in steps of half a rate-limit window
TickMs == windowMs \div 2

\* ------------------------------------------------------------------------
\* JS values
\* ------------------------------------------------------------------------
Null == [null |-> TRUE]
Undefined == "undefined"

Num(n) == [k |-> "num", n |-> n, half |-> FALSE]
Half(n) == [k |-> "num", n |-> n, half |-> TRUE]
NaN == [k |-> "nan", n |-> 0, half |-> FALSE]
Infinity == [k |-> "inf", n |-> 0, half |-> FALSE]
Undef == [k |-> "undef", n |-> 0, half |-> FALSE]
JsNull == [k |-> "null", n |-> 0, half |-> FALSE]

\* Number(v)
Number(v) ==
  CASE v.k = "num" -> v
    [] v.k = "null" -> Num(0)
    [] v.k = "inf" -> Infinity
    [] OTHER -> NaN

isFinite(x) == x.k = "num"

\* x <= 0, x > c for a JS number (every comparison with NaN is false)
LeZero(x) ==
  CASE x.k = "num" -> x.n < 0 \/ (x.n = 0 /\ ~x.half)
    [] OTHER -> FALSE

GreaterThan(x, c) ==
  CASE x.k = "num" -> x.n > c \/ (x.n = c /\ x.half)
    [] x.k = "inf" -> TRUE
    [] OTHER -> FALSE

WS == " "

RECURSIVE trimStart(_)
trimStart(s) ==
  IF s # <<>> /\ Head(s) = WS THEN trimStart(Tail(s)) ELSE s

RECURSIVE trimEnd(_)
trimEnd(s) ==
  IF s # <<>> /\ s[Len(s)] = WS THEN trimEnd(SubSeq(s, 1, Len(s) - 1)) ELSE s

trim(s) == trimEnd(trimStart(s))

toLowerCaseToken(t) ==
  CASE t = "PICKUP" -> "pickup"
    [] t = "Pickup" -> "pickup"
    [] t = "DELIVERY" -> "delivery"
    [] t = "Coquimbo" -> "coquimbo"
    [] t = "La Serena" -> "la serena"
    [] OTHER -> t

toLowerCase(s) == [i \in 1..Len(s) |-> toLowerCaseToken(s[i])]

\* ------------------------------------------------------------------------
\* Validaciones (src/server.js 186-266)
\* ------------------------------------------------------------------------
toSafeString(v, maxLen) ==
  LET s == trim(v)
  IN IF s = <<>> THEN <<>>
     ELSE IF Len(s) > maxLen THEN SubSeq(s, 1, maxLen) ELSE s

toSafeNumber(v, fallback) ==
  LET n == Number(v)
  IN IF isFinite(n) THEN n ELSE fallback

normalizeShippingOption(v) ==
  LET s == toLowerCase(trim(v))
  IN IF s = <<"pickup">> THEN "pickup" ELSE "delivery"

\* Faulty variant: the detail of the other option is kept when it was sent
validateAndBuildClientDataKeepBoth(shippingOption, delivery, pickup) ==
  LET d == [name |-> toSafeString(delivery.name, 120),
            phone |-> toSafeString(delivery.phone, 40),
            address |-> toSafeString(delivery.address, 180),
            commune |-> toSafeString(delivery.commune, 40),
            notes |-> toSafeString(delivery.notes, 300)]
      p == [name |-> toSafeString(pickup.name, 120),
            phone |-> toSafeString(pickup.phone, 40),
            rut |-> toSafeString(pickup.rut, 30)]
  IN IF shippingOption = "delivery"
     THEN IF d.name = <<>> \/ d.phone = <<>> \/ d.address = <<>>
          THEN [ok |-> FALSE, error |-> "Faltan datos de delivery (name/phone/address)"]
          ELSE [ok |-> TRUE, delivery |-> d,
                pickup |-> IF p.name = <<>> THEN Null ELSE p]
     ELSE IF p.name = <<>> \/ p.phone = <<>>
          THEN [ok |-> FALSE, error |-> "Faltan datos de retiro (name/phone)"]
          ELSE [ok |-> TRUE, pickup |-> p,
                delivery |-> IF d.name = <<>> THEN Null ELSE d]

validateAndBuildClientData(shippingOption, delivery, pickup) ==
  IF shippingOption = "delivery"
  THEN LET name == toSafeString(delivery.name, 120)
           phone == toSafeString(delivery.phone, 40)
           address == toSafeString(delivery.address, 180)
           commune == toSafeString(delivery.commune, 40)
           notes == toSafeString(delivery.notes, 300)
       IN IF name = <<>> \/ phone = <<>> \/ address = <<>>
          THEN [ok |-> FALSE, error |-> "Faltan datos de delivery (name/phone/address)"]
          ELSE [ok |-> TRUE,
                delivery |-> [name |-> name, phone |-> phone, address |-> address,
                              commune |-> commune, notes |-> notes],
                pickup |-> Null]
  ELSE LET name == toSafeString(pickup.name, 120)
           phone == toSafeString(pickup.phone, 40)
           rut == toSafeString(pickup.rut, 30)
       IN IF name = <<>> \/ phone = <<>>
          THEN [ok |-> FALSE, error |-> "Faltan datos de retiro (name/phone)"]
          ELSE [ok |-> TRUE,
                delivery |-> Null,
                pickup |-> [name |-> name, phone |-> phone, rut |-> rut]]

mpItemOf(i) ==
  [title |-> toSafeString(i.title, 120),
   quantity |-> toSafeNumber(i.quantity, Num(1)),
   unit_price |-> toSafeNumber(i.unitprice, Num(0)),
   currency_id |-> "CLP"]

\* Faulty variant: the unit price is not looked at
invalidItemAnyPrice(i) ==
  \/ i.title = <<>>
  \/ ~isFinite(i.quantity)
  \/ LeZero(i.quantity)
  \/ GreaterThan(i.quantity, maxQuantity)

invalidItem(i) ==
  \/ i.title = <<>>
  \/ ~isFinite(i.quantity)
  \/ LeZero(i.quantity)
  \/ GreaterThan(i.quantity, maxQuantity)
  \/ ~isFinite(i.unit_price)
  \/ LeZero(i.unit_price)

\* Faulty variant: the length of the list is not limited
validateAndBuildMpItemsAnyLength(items) ==
  IF Len(items) = 0
  THEN [ok |-> FALSE, error |-> "items vacio"]
  ELSE LET mpItems == [k \in 1..Len(items) |-> mpItemOf(items[k])]
       IN IF \E k \in 1..Len(mpItems) : invalidItem(mpItems[k])
          THEN [ok |-> FALSE, error |-> "items invalidos", mpItems |-> mpItems]
          ELSE [ok |-> TRUE, mpItems |-> mpItems]

validateAndBuildMpItems(items) ==
  IF Len(items) = 0
  THEN [ok |-> FALSE, error |-> "items vacio"]
  ELSE LET mpItems == [k \in 1..Len(items) |-> mpItemOf(items[k])]
       IN IF Len(mpItems) > maxItems
          THEN [ok |-> FALSE, error |-> "Demasiados items (max 50)"]
          ELSE IF \E k \in 1..Len(mpItems) : invalidItem(mpItems[k])
               THEN [ok |-> FALSE, error |-> "items invalidos", mpItems |-> mpItems]
               ELSE [ok |-> TRUE, mpItems |-> mpItems]

\* ------------------------------------------------------------------------
\* demo storage: const orders = new Map()  (insertion-ordered)
\* ------------------------------------------------------------------------
MapKeys(m) == {m[i].key : i \in 1..Len(m)}
MapHas(m, k) == k \in MapKeys(m)
MapGet(m, k) == m[CHOOSE i \in 1..Len(m) : m[i].key = k].value
MapSet(m, k, v) ==
  IF MapHas(m, k)
  THEN [i \in 1..Len(m) |-> IF m[i].key = k THEN [key |-> k, value |-> v] ELSE m[i]]
  ELSE Append(m, [key |-> k, value |-> v])

\* ------------------------------------------------------------------------
\* State
\* ------------------------------------------------------------------------
VARIABLES
  env,      \* process.env as read at start-up: MP_ACCESS_TOKEN, ADMIN_TOKEN
  orders,   \* the Map of orders, in insertion order: <<[key, value], ...>>
  uuids,    \* how many ids crypto.randomUUID() has handed out
  posts,    \* create_preference handlers awaiting POST /checkout/preferences
  gets,     \* webhook handlers awaiting GET /v1/payments/:id
  mpRefs,   \* external_reference values the processor has been sent
  clock,    \* the system clock, in ticks
  hits,     \* the two rate limiters' Maps: ip -> [count, resetAt]
  ev        \* the last handler run

vars == <<env, orders, uuids, posts, gets, mpRefs, clock, hits, ev>>

Date_now == clock * TickMs

\* External references: order ids are 1, 2, ...; NoRef is an absent (falsy)
\* reference and ForeignRef one that this server never generated.
NoRef == 0
ForeignRef == -1

Ips == {"203.0.113.7"}
PaymentIds == 1..MaxPaymentId
NoId == 0

RemoveAt(s, i) == SubSeq(s, 1, i - 1) \o SubSeq(s, i + 1, Len(s))

\* ------------------------------------------------------------------------
\* Rate limit simple (src/server.js 74-104)
\* ------------------------------------------------------------------------
\* Faulty variant: a window that has run out is never started again
rateLimiterOneWindow(h, ip, t, max) ==
  IF ip \notin DOMAIN h
  THEN [hits |-> [k \in DOMAIN h \cup {ip} |->
                    IF k = ip THEN [count |-> 1, resetAt |-> t + windowMs] ELSE h[k]],
        next |-> TRUE]
  ELSE LET count == h[ip].count + 1
       IN [hits |-> [h EXCEPT ![ip].count = count],
           next |-> ~(count > max)]

rateLimiter(h, ip, t, max) ==
  IF ip \notin DOMAIN h \/ h[ip].resetAt <= t
  THEN [hits |-> [k \in DOMAIN h \cup {ip} |->
                    IF k = ip THEN [count |-> 1, resetAt |-> t + windowMs] ELSE h[k]],
        next |-> TRUE]
  ELSE LET count == h[ip].count + 1
       IN [hits |-> [h EXCEPT ![ip].count = count],
           next |-> ~(count > max)]

\* ------------------------------------------------------------------------
\* Admin auth (src/server.js 122-131).  The Authorization header is a token
\* sequence: <<"Bearer ", credential>>.
\* ------------------------------------------------------------------------
\* Faulty variant: any bearer credential passes
requireAdminAnyBearer(ADMIN_TOKEN, authorization) ==
  IF ADMIN_TOKEN = "" THEN [next |-> TRUE, res |-> 0]
  ELSE IF Len(authorization) >= 1 /\ authorization[1] = "Bearer "
       THEN [next |-> TRUE, res |-> 0]
       ELSE [next |-> FALSE, res |-> 401]

requireAdmin(ADMIN_TOKEN, authorization) ==
  IF ADMIN_TOKEN = "" THEN [next |-> TRUE, res |-> 0]
  ELSE LET token == IF Len(authorization) >= 1 /\ authorization[1] = "Bearer "
                    THEN (IF Len(authorization) >= 2 THEN authorization[2] ELSE "")
                    ELSE ""
       IN IF token # ADMIN_TOKEN THEN [next |-> FALSE, res |-> 401]
          ELSE [next |-> TRUE, res |-> 0]

\* ------------------------------------------------------------------------
\* Helpers detalle (src/server.js 140-179)
\* ------------------------------------------------------------------------
normalizeCommuneLabel(commune) ==
  LET c == toLowerCase(trim(commune))
  IN IF c = <<>> THEN <<>>
     ELSE IF c \in {<<"la-serena">>, <<"laserena">>, <<"la", " ", "serena">>}
          THEN <<"La Serena">>
          ELSE IF c = <<"coquimbo">> THEN <<"Coquimbo">> ELSE commune

\* o?.delivery?.name || "": the field of a detail object that may be null
fieldOr(d, f) == IF d = Null THEN <<>> ELSE d[f]

buildDetailObject(o) ==
  LET type == IF o.shippingOption = "pickup" THEN "pickup" ELSE "delivery"
  IN IF type = "delivery"
     THEN [type |-> type,
           name |-> fieldOr(o.delivery, "name"),
           phone |-> fieldOr(o.delivery, "phone"),
           address |-> fieldOr(o.delivery, "address"),
           commune |-> normalizeCommuneLabel(fieldOr(o.delivery, "commune")),
           notes |-> fieldOr(o.delivery, "notes"),
           rut |-> <<>>]
     ELSE [type |-> type,
           name |-> fieldOr(o.pickup, "name"),
           phone |-> fieldOr(o.pickup, "phone"),
           address |-> <<>>, commune |-> <<>>, notes |-> <<>>,
           rut |-> fieldOr(o.pickup, "rut")]

buildDetailText(o) ==
  LET d == buildDetailObject(o)
  IN IF d.type = "delivery"
     THEN LET base == IF d.address # <<>> /\ d.commune # <<>>
                      THEN d.address \o <<", ">> \o d.commune
                      ELSE IF d.address # <<>> THEN d.address
                      ELSE IF d.commune # <<>> THEN d.commune
                      ELSE <<"-">>
          IN IF d.notes # <<>>
             THEN <<"Delivery: ">> \o base \o <<". Notas: ">> \o d.notes
             ELSE <<"Delivery: ">> \o base
     ELSE IF d.rut # <<>> THEN <<"Retiro en tienda. RUT: ">> \o d.rut
          ELSE <<"Retiro en tienda.">>

\* ------------------------------------------------------------------------
\* POST /create_preference (src/server.js 284-365)
\* ------------------------------------------------------------------------
\* Faulty variant: the record is stored only once the processor has answered
storeCreatedLate(m, orderId, rec) == m

\* Faulty variant: the store keeps one order and evicts the older one
storeCreatedEvict(m, orderId, rec) ==
  MapSet(IF Len(m) >= 1 THEN Tail(m) ELSE m, orderId, rec)

\* Faulty variant: updatedAt is left unset until the first reconciliation
storeCreatedUnstamped(m, orderId, rec) == MapSet(m, orderId, [rec EXCEPT !.updatedAt = 0])

\* Faulty variant: the new record is stored with empty payment fields
storeCreatedPaymentFields(m, orderId, rec) ==
  MapSet(m, orderId, [paymentId |-> NoId, paymentStatusDetail |-> Undefined] @@ rec)

\* orders.set(orderId, {...}) of the new record, lines 326-335
storeCreated(m, orderId, rec) == MapSet(m, orderId, rec)

\* Faulty variant: the credential is looked at only after the body
createPreferenceValidateFirst(body, MP_ACCESS_TOKEN, orderId, t) ==
  LET shippingOption == normalizeShippingOption(body.shippingOption)
      itemsResult == validateAndBuildMpItems(body.items)
      clientResult == validateAndBuildClientData(shippingOption, body.delivery, body.pickup)
      shipCost == IF shippingOption = "delivery" THEN DELIVERY_COST ELSE 0
      mpItems == IF shipCost > 0
                 THEN Append(itemsResult.mpItems,
                             [title |-> <<"Envio (Delivery)">>, quantity |-> Num(1),
                              unit_price |-> Num(shipCost), currency_id |-> "CLP"])
                 ELSE itemsResult.mpItems
  IN IF ~itemsResult.ok THEN [branch |-> "bad_items", res |-> 400]
     ELSE IF ~clientResult.ok THEN [branch |-> "bad_client", res |-> 400]
     ELSE IF MP_ACCESS_TOKEN = "" THEN [branch |-> "no_token", res |-> 500]
     ELSE [branch |-> "posted", res |-> 0,
           order |-> [status |-> "created",
                      items |-> mpItems,
                      shippingOption |-> shippingOption,
                      shippingCost |-> shipCost,
                      delivery |-> clientResult.delivery,
                      pickup |-> clientResult.pickup,
                      createdAt |-> t,
                      updatedAt |-> t],
           preferenceBody |-> [items |-> mpItems, external_reference |-> orderId]]

\* Faulty variant: the shipping cost is the one the client sent
createPreferenceClientCost(body, MP_ACCESS_TOKEN, orderId, t) ==
  IF MP_ACCESS_TOKEN = ""
  THEN [branch |-> "no_token", res |-> 500]
  ELSE
    LET shippingOption == normalizeShippingOption(body.shippingOption)
        itemsResult == validateAndBuildMpItems(body.items)
        clientResult == validateAndBuildClientData(shippingOption, body.delivery, body.pickup)
        sent == toSafeNumber(body.shippingCost, Num(0))
        shipCost == IF shippingOption = "delivery" /\ sent.n > 0 THEN sent.n ELSE 0
        mpItems == IF shipCost > 0
                   THEN Append(itemsResult.mpItems,
                               [title |-> <<"Envio (Delivery)">>, quantity |-> Num(1),
                                unit_price |-> Num(shipCost), currency_id |-> "CLP"])
                   ELSE itemsResult.mpItems
    IN IF ~itemsResult.ok THEN [branch |-> "bad_items", res |-> 400]
       ELSE IF ~clientResult.ok THEN [branch |-> "bad_client", res |-> 400]
       ELSE [branch |-> "posted", res |-> 0,
             order |-> [status |-> "created",
                        items |-> mpItems,
                        shippingOption |-> shippingOption,
                        shippingCost |-> shipCost,
                        delivery |-> clientResult.delivery,
                        pickup |-> clientResult.pickup,
                        createdAt |-> t,
                        updatedAt |-> t],
             preferenceBody |-> [items |-> mpItems, external_reference |-> orderId]]

\* The run from the request to the await of the POST, lines 285-349.
createPreference(body, MP_ACCESS_TOKEN, orderId, t) ==
  IF MP_ACCESS_TOKEN = ""
  THEN [branch |-> "no_token", res |-> 500]
  ELSE
    LET shippingOption == normalizeShippingOption(body.shippingOption)
        itemsResult == validateAndBuildMpItems(body.items)
        clientResult == validateAndBuildClientData(shippingOption, body.delivery, body.pickup)
        shipCost == IF shippingOption = "delivery" THEN DELIVERY_COST ELSE 0
        mpItems == IF shipCost > 0
                   THEN Append(itemsResult.mpItems,
                               [title |-> <<"Envio (Delivery)">>, quantity |-> Num(1),
                                unit_price |-> Num(shipCost), currency_id |-> "CLP"])
                   ELSE itemsResult.mpItems
    IN IF ~itemsResult.ok THEN [branch |-> "bad_items", res |-> 400]
       ELSE IF ~clientResult.ok THEN [branch |-> "bad_client", res |-> 400]
       ELSE [branch |-> "posted", res |-> 0,
             order |-> [status |-> "created",
                        items |-> mpItems,
                        shippingOption |-> shippingOption,
                        shippingCost |-> shipCost,
                        delivery |-> clientResult.delivery,
                        pickup |-> clientResult.pickup,
                        createdAt |-> t,
                        updatedAt |-> t],
             preferenceBody |-> [items |-> mpItems, external_reference |-> orderId]]

\* err.message of the error axios rejects with
errMessage(reply) ==
  IF reply.kind = "error" THEN "Request failed with status code"
  ELSE "timeout of 15000ms exceeded"

\* Faulty variant: the catch answers 500 whatever the processor said
createPreferenceResumeAlways500(reply, orderId) ==
  IF reply.kind = "ok"
  THEN [branch |-> "ok", res |-> 200,
        body |-> [initpoint |-> reply.data, orderId |-> orderId, preferenceId |-> "pref"]]
  ELSE [branch |-> "catch", res |-> 500,
        body |-> [error |-> "No se pudo crear preferencia", detail |-> errMessage(reply)]]

\* Faulty variant: no try/catch around the call: a failure is not answered
createPreferenceResumeNoCatch(reply, orderId) ==
  IF reply.kind = "ok"
  THEN [branch |-> "ok", res |-> 200,
        body |-> [initpoint |-> reply.data, orderId |-> orderId, preferenceId |-> "pref"]]
  ELSE [branch |-> "unhandled rejection", res |-> 0, body |-> Null]

\* The run after the await, lines 351-363: the reply of the processor is
\* [kind |-> "ok" | "error" | "timeout", status, data]; an error response
\* has err.response, a timeout has none; data "" is an empty (falsy) body.
createPreferenceResume(reply, orderId) ==
  IF reply.kind = "ok"
  THEN [branch |-> "ok", res |-> 200,
        body |-> [initpoint |-> reply.data, orderId |-> orderId, preferenceId |-> "pref"]]
  ELSE LET status == IF reply.kind = "error" /\ reply.status # 0 THEN reply.status ELSE 500
           mpData == IF reply.kind = "error" THEN reply.data ELSE ""
       IN [branch |-> "catch", res |-> status,
           body |-> [error |-> "No se pudo crear preferencia",
                     detail |-> IF mpData # "" THEN mpData ELSE errMessage(reply)]]

\* ------------------------------------------------------------------------
\* POST /webhook/mercadopago (src/server.js 411-446)
\* ------------------------------------------------------------------------
\* Faulty variant: the acknowledgement is sent after the fetch has been issued
webhookReceiveAckLast(n, MP_ACCESS_TOKEN) ==
  LET topic == IF n.topic # "" THEN n.topic ELSE n.type
      id == IF n.id # NoId THEN n.id
            ELSE IF n.data_id # NoId THEN n.data_id ELSE n.body_id
  IN IF id = NoId THEN [branch |-> "no_id", fx |-> <<"res 200">>, id |-> NoId]
     ELSE IF topic # "" /\ topic # "payment"
          THEN [branch |-> "not_payment", fx |-> <<"res 200">>, id |-> NoId]
     ELSE IF MP_ACCESS_TOKEN = ""
          THEN [branch |-> "no_token", fx |-> <<"res 200">>, id |-> NoId]
     ELSE [branch |-> "fetch", fx |-> <<"GET /v1/payments", "res 200">>, id |-> id]

\* Faulty variant: the topic is not looked at
webhookReceiveAnyTopic(n, MP_ACCESS_TOKEN) ==
  LET id == IF n.id # NoId THEN n.id
            ELSE IF n.data_id # NoId THEN n.data_id ELSE n.body_id
  IN IF id = NoId THEN [branch |-> "no_id", fx |-> <<"res 200">>, id |-> NoId]
     ELSE IF MP_ACCESS_TOKEN = ""
          THEN [branch |-> "no_token", fx |-> <<"res 200">>, id |-> NoId]
     ELSE [branch |-> "fetch", fx |-> <<"res 200", "GET /v1/payments">>, id |-> id]

\* A notification: topic and type are query parameters ("" when absent);
\* id = query.id, data_id = query["data.id"], body_id = body.data.id
\* (NoId when absent).
\* The run from the request to the await of the GET, lines 412-429: what it
\* sends, in order, and the payment id it fetches.
webhookReceive(n, MP_ACCESS_TOKEN) ==
  LET topic == IF n.topic # "" THEN n.topic ELSE n.type
      id == IF n.id # NoId THEN n.id
            ELSE IF n.data_id # NoId THEN n.data_id ELSE n.body_id
  IN IF id = NoId THEN [branch |-> "no_id", fx |-> <<"res 200">>, id |-> NoId]
     ELSE IF topic # "" /\ topic # "payment"
          THEN [branch |-> "not_payment", fx |-> <<"res 200">>, id |-> NoId]
     ELSE IF MP_ACCESS_TOKEN = ""
          THEN [branch |-> "no_token", fx |-> <<"res 200">>, id |-> NoId]
     ELSE [branch |-> "fetch", fx |-> <<"res 200", "GET /v1/payments">>, id |-> id]

\* Faulty variant: the merge also refreshes createdAt
mergePaymentTouch(old, payment, t) ==
  [status |-> payment.status,
   paymentId |-> payment.id,
   paymentStatusDetail |-> payment.status_detail,
   createdAt |-> t,
   updatedAt |-> t] @@ old

\* Faulty variant: the merge counts the notifications it has applied
mergePaymentCount(old, payment, t) ==
  [status |-> payment.status,
   paymentId |-> payment.id,
   paymentStatusDetail |-> payment.status_detail,
   notifications |-> IF "notifications" \in DOMAIN old THEN old.notifications + 1 ELSE 1,
   updatedAt |-> t] @@ old

\* Faulty variant: a rejected payment reopens the order
mergePaymentReopen(old, payment, t) ==
  [status |-> IF payment.status = "rejected" THEN "created" ELSE payment.status,
   paymentId |-> payment.id,
   paymentStatusDetail |-> payment.status_detail,
   updatedAt |-> t] @@ old

\* Faulty variant: the merge stamps createdAt, not updatedAt
mergePaymentStampsCreated(old, payment, t) ==
  [status |-> payment.status,
   paymentId |-> payment.id,
   paymentStatusDetail |-> payment.status_detail,
   createdAt |-> t] @@ old

\* Faulty variant: a payment older than the one on record is not merged
mergePaymentNewest(old, payment, t) ==
  IF "paymentId" \in DOMAIN old /\ old.paymentId > payment.id
  THEN old
  ELSE [status |-> payment.status,
        paymentId |-> payment.id,
        paymentStatusDetail |-> payment.status_detail,
        updatedAt |-> t] @@ old

\* Faulty variant: a payment without status_detail keeps the detail on record
mergePaymentKeepDetail(old, payment, t) ==
  [status |-> payment.status,
   paymentId |-> payment.id,
   paymentStatusDetail |->
     IF payment.status_detail = Undefined /\ "paymentStatusDetail" \in DOMAIN old
     THEN old.paymentStatusDetail ELSE payment.status_detail,
   updatedAt |-> t] @@ old

\* {...old, status, paymentId, paymentStatusDetail, updatedAt}, lines 436-442
mergePayment(old, payment, t) ==
  [status |-> payment.status,
   paymentId |-> payment.id,
   paymentStatusDetail |-> payment.status_detail,
   updatedAt |-> t] @@ old

\* Faulty variant: no try/catch around the fetch
webhookResumeNoCatch(m, reply, t) ==
  IF reply.kind # "ok" \/ reply.data = Null
  THEN [orders |-> m, branch |-> "unhandled rejection", fx |-> <<>>,
        orderId |-> NoRef, old |-> Null]
  ELSE LET payment == reply.data
           orderId == payment.external_reference
       IN IF orderId = NoRef \/ ~MapHas(m, orderId)
          THEN [orders |-> m, branch |-> "no_order", fx |-> <<>>,
                orderId |-> orderId, old |-> Null]
          ELSE LET old == MapGet(m, orderId)
               IN [orders |-> MapSet(m, orderId, mergePayment(old, payment, t)),
                   branch |-> "merged", fx |-> <<>>, orderId |-> orderId, old |-> old]

\* Faulty variant: a payment of an unknown order creates its record
webhookResumeUpsert(m, reply, t) ==
  IF reply.kind # "ok" \/ reply.data = Null
  THEN [orders |-> m, branch |-> "catch", fx |-> <<>>, orderId |-> NoRef, old |-> Null]
  ELSE LET payment == reply.data
           orderId == payment.external_reference
       IN IF orderId = NoRef
          THEN [orders |-> m, branch |-> "no_order", fx |-> <<>>,
                orderId |-> orderId, old |-> Null]
          ELSE LET old == IF MapHas(m, orderId) THEN MapGet(m, orderId)
                          ELSE [status |-> "created"]
               IN [orders |-> MapSet(m, orderId, mergePayment(old, payment, t)),
                   branch |-> IF MapHas(m, orderId) THEN "merged" ELSE "no_order",
                   fx |-> <<>>, orderId |-> orderId, old |-> old]

\* Faulty variant: the payment is merged into every stored order
webhookResumeEveryOrder(m, reply, t) ==
  IF reply.kind # "ok" \/ reply.data = Null
  THEN [orders |-> m, branch |-> "catch", fx |-> <<>>, orderId |-> NoRef, old |-> Null]
  ELSE LET payment == reply.data
           orderId == payment.external_reference
       IN IF orderId = NoRef \/ ~MapHas(m, orderId)
          THEN [orders |-> m, branch |-> "no_order", fx |-> <<>>,
                orderId |-> orderId, old |-> Null]
          ELSE LET old == MapGet(m, orderId)
               IN [orders |-> [j \in 1..Len(m) |->
                                 [key |-> m[j].key,
                                  value |-> mergePayment(m[j].value, payment, t)]],
                   branch |-> "merged", fx |-> <<>>, orderId |-> orderId, old |-> old]

\* The record as create_preference stored it
asCreated(o) ==
  [f \in DOMAIN o \ {"paymentId", "paymentStatusDetail"} |->
     IF f = "status" THEN "created"
     ELSE IF f = "updatedAt" THEN o.createdAt ELSE o[f]]

\* Faulty variant: the merge starts from the record as it was read when the
\* order was created, not as it is now
webhookResumeStale(m, reply, t) ==
  IF reply.kind # "ok" \/ reply.data = Null
  THEN [orders |-> m, branch |-> "catch", fx |-> <<>>, orderId |-> NoRef, old |-> Null]
  ELSE LET payment == reply.data
           orderId == payment.external_reference
       IN IF orderId = NoRef \/ ~MapHas(m, orderId)
          THEN [orders |-> m, branch |-> "no_order", fx |-> <<>>,
                orderId |-> orderId, old |-> Null]
          ELSE LET old == asCreated(MapGet(m, orderId))
               IN [orders |-> MapSet(m, orderId, mergePayment(old, payment, t)),
                   branch |-> "merged", fx |-> <<>>, orderId |-> orderId, old |-> old]

\* The run after the await, lines 430-445.  The reply of the processor is
\* [kind |-> "ok", data |-> payment], [kind |-> "ok", data |-> Null] (a body
\* that is not an object), [kind |-> "error"] or [kind |-> "timeout"].
webhookResume(m, reply, t) ==
  IF reply.kind # "ok" \/ reply.data = Null
  THEN [orders |-> m, branch |-> "catch", fx |-> <<>>, orderId |-> NoRef, old |-> Null]
  ELSE LET payment == reply.data
           orderId == payment.external_reference
       IN IF orderId = NoRef \/ ~MapHas(m, orderId)
          THEN [orders |-> m, branch |-> "no_order", fx |-> <<>>,
                orderId |-> orderId, old |-> Null]
          ELSE LET old == MapGet(m, orderId)
               IN [orders |-> MapSet(m, orderId, mergePayment(old, payment, t)),
                   branch |-> "merged", fx |-> <<>>, orderId |-> orderId, old |-> old]

\* ------------------------------------------------------------------------
\* Endpoints JSON (src/server.js 372-404) and the lists of the HTML views
\* (552-555, 589-593)
\* ------------------------------------------------------------------------
\* Array.prototype.sort is stable: the indices 1..n of `keys`, by key
\* descending, equal keys in their original order.
\* Faulty variant: a sort that is not stable (equal keys come out reversed)
RECURSIVE sortedIdxTiesReversed(_, _)
sortedIdxTiesReversed(keys, n) ==
  IF n = 0 THEN <<>>
  ELSE LET prev == sortedIdxTiesReversed(keys, n - 1)
           p == Cardinality({j \in 1..(n - 1) : keys[j] > keys[n]})
       IN SubSeq(prev, 1, p) \o <<n>> \o SubSeq(prev, p + 1, n - 1)

RECURSIVE sortedIdx(_, _)
sortedIdx(keys, n) ==
  IF n = 0 THEN <<>>
  ELSE LET prev == sortedIdx(keys, n - 1)
           p == Cardinality({j \in 1..(n - 1) : keys[j] >= keys[n]})
       IN SubSeq(prev, 1, p) \o <<n>> \o SubSeq(prev, p + 1, n - 1)

sortDesc(list, keys) ==
  LET idx == sortedIdx(keys, Len(list))
  IN [i \in 1..Len(list) |-> list[idx[i]]]

\* (o.createdAt || 0) and (o.updatedAt || o.createdAt || 0): 0 is falsy.
createdKey(o) == IF o.createdAt # 0 THEN o.createdAt ELSE 0

updatedKey(o) ==
  IF "updatedAt" \in DOMAIN o /\ o.updatedAt # 0 THEN o.updatedAt
  ELSE IF o.createdAt # 0 THEN o.createdAt ELSE 0

\* {id, ...o, detail, detailText}
enrich(id, o) ==
  [detail |-> buildDetailObject(o), detailText |-> buildDetailText(o)] @@ o @@ [id |-> id]

\* {id, ...o}
withId(id, o) == o @@ [id |-> id]

\* Faulty variant: the lookup is answered without looking at its result
getOrderUnchecked(m, id) ==
  IF ~MapHas(m, id) THEN [res |-> 200, body |-> Null]
  ELSE LET o == MapGet(m, id)
       IN [res |-> 200,
           body |-> [detail |-> buildDetailObject(o), detailText |-> buildDetailText(o)] @@ o]

getOrder(m, id) ==
  IF ~MapHas(m, id) THEN [res |-> 404, body |-> [error |-> "Orden no encontrada"]]
  ELSE LET o == MapGet(m, id)
       IN [res |-> 200,
           body |-> [detail |-> buildDetailObject(o), detailText |-> buildDetailText(o)] @@ o]

listOrders(m) ==
  LET list == [i \in 1..Len(m) |-> enrich(m[i].key, m[i].value)]
  IN sortDesc(list, [i \in 1..Len(list) |-> createdKey(list[i])])

\* Faulty variant: the approved orders are sorted like the list of all orders
listPaymentsByCreated(m) ==
  LET list == SelectSeq([i \in 1..Len(m) |-> enrich(m[i].key, m[i].value)],
                        LAMBDA o : o.status = "approved")
  IN sortDesc(list, [i \in 1..Len(list) |-> createdKey(list[i])])

listPayments(m) ==
  LET list == SelectSeq([i \in 1..Len(m) |-> enrich(m[i].key, m[i].value)],
                        LAMBDA o : o.status = "approved")
  IN sortDesc(list, [i \in 1..Len(list) |-> updatedKey(list[i])])

viewOrders(m) ==
  LET list == [i \in 1..Len(m) |-> withId(m[i].key, m[i].value)]
  IN sortDesc(list, [i \in 1..Len(list) |-> createdKey(list[i])])

viewPayments(m) ==
  LET list == SelectSeq([i \in 1..Len(m) |-> withId(m[i].key, m[i].value)],
                        LAMBDA o : o.status = "approved")
  IN sortDesc(list, [i \in 1..Len(list) |-> updatedKey(list[i])])

\* ------------------------------------------------------------------------
\* Inputs
\* ------------------------------------------------------------------------
NoDetail == [name |-> <<>>, phone |-> <<>>, address |-> <<>>, commune |-> <<>>,
             notes |-> <<>>, rut |-> <<>>]

Bread == [title |-> <<" ", "Bread">>, quantity |-> Num(2), unitprice |-> Num(1000)]

BodyDelivery ==
  [items |-> <<Bread>>, shippingOption |-> <<"delivery">>, shippingCost |-> Num(1),
   delivery |-> [NoDetail EXCEPT !.name = <<"A">>, !.phone = <<"123">>,
                                 !.address = <<"X">>, !.commune = <<"coquimbo">>],
   pickup |-> NoDetail]

BodyPickup ==
  [items |-> <<Bread>>, shippingOption |-> <<"PICKUP", " ">>, shippingCost |-> Num(1),
   delivery |-> NoDetail,
   pickup |-> [NoDetail EXCEPT !.name = <<"B">>, !.phone = <<"456">>]]

Bodies ==
  { BodyDelivery,
    BodyPickup,
    [BodyDelivery EXCEPT !.items = <<>>],
    [BodyDelivery EXCEPT !.items = <<Bread, [Bread EXCEPT !.quantity = Num(0)]>>],
    [BodyDelivery EXCEPT !.delivery = NoDetail],
    [BodyPickup EXCEPT !.pickup = [NoDetail EXCEPT !.name = <<" ">>, !.phone = <<"456">>]] }

PreferenceReplies ==
  { [kind |-> "ok", status |-> 201, data |-> "https://mp/init_point"],
    [kind |-> "error", status |-> 400, data |-> "invalid items"],
    [kind |-> "error", status |-> 502, data |-> ""],
    [kind |-> "timeout", status |-> 0, data |-> ""] }

Topics == {"", "payment", "merchant_order"}
Types == {"", "payment", "subscription_preapproval"}

\* At most one of the three places carries the id, or the query and the body
\* carry different ids.
Notifications ==
  { n \in [topic : Topics, type : Types,
           id : {NoId} \cup PaymentIds, data_id : {NoId} \cup PaymentIds,
           body_id : {NoId} \cup PaymentIds] :
      /\ \/ Cardinality({f \in {"id", "data_id", "body_id"} : n[f] # NoId}) <= 1
         \/ (n.id = 1 /\ n.data_id = NoId /\ n.body_id = 2)
      /\ n.topic = "" \/ n.type = "subscription_preapproval"
      /\ n.topic = "merchant_order" => n.type = ""
      /\ n.type # "" => n.id = NoId /\ n.body_id = NoId
      /\ n.topic # "" => n.data_id = NoId /\ n.body_id = NoId }

\* What the processor reports of a payment: a status of its API (never
\* "created", which is this server's own) and a status_detail, which may be
\* missing.
PaymentStates ==
  { [status |-> "approved", status_detail |-> "accredited"],
    [status |-> "rejected", status_detail |-> "cc_rejected_other_reason"],
    [status |-> "pending", status_detail |-> Undefined] }

Payments(id) ==
  { [id |-> id, status |-> st.status, status_detail |-> st.status_detail,
     external_reference |-> ref] :
      st \in PaymentStates, ref \in {NoRef, ForeignRef} \cup mpRefs }

PaymentReplies(id) ==
  {[kind |-> "ok", data |-> p] : p \in Payments(id)}
    \cup {[kind |-> "ok", data |-> Null],
          [kind |-> "error", data |-> Null],
          [kind |-> "timeout", data |-> Null]}

Authorizations == {<<>>, <<"Bearer ", "s3cret">>}

\* ------------------------------------------------------------------------
\* Init and the actions
\* ------------------------------------------------------------------------
Init ==
  /\ env \in [MP_ACCESS_TOKEN : {"", "APP_USR-token"}, ADMIN_TOKEN : {""}]
  /\ orders = <<>>
  /\ uuids = 0
  /\ posts = <<>>
  /\ gets = <<>>
  /\ mpRefs = {}
  /\ clock = 1
  /\ hits = [checkout |-> <<>>, webhook |-> <<>>]
  /\ ev = [op |-> "listen"]

Tick ==
  /\ clock < MaxClock
  /\ clock' = clock + 1
  /\ UNCHANGED <<env, orders, uuids, posts, gets, mpRefs, hits, ev>>

\* Faulty variant: the generator hands out the id it handed out last
newOrderIdRepeats == IF uuids = 0 THEN 1 ELSE uuids

\* newOrderId(): crypto.randomUUID() never returns an id it returned before;
\* the ids are numbered in the order they are generated.
newOrderId == uuids + 1

\* The create_preference handler, up to its await
CreatePreferenceHandler(body) ==
  LET r == createPreference(body, env.MP_ACCESS_TOKEN, newOrderId, Date_now)
  IN IF r.branch = "posted"
     THEN /\ uuids < MaxOrders
          /\ Len(posts) + Len(gets) < MaxPending
          /\ uuids' = uuids + 1
          /\ orders' = storeCreated(orders, newOrderId, r.order)
          /\ mpRefs' = mpRefs \cup {r.preferenceBody.external_reference}
          /\ posts' = Append(posts, [orderId |-> newOrderId])
          /\ ev' = [op |-> "create_preference", branch |-> r.branch, res |-> r.res,
                    orderId |-> newOrderId]
          /\ UNCHANGED <<env, gets, clock>>
     ELSE /\ ev' = [op |-> "create_preference", branch |-> r.branch, res |-> r.res]
          /\ UNCHANGED <<env, orders, uuids, posts, gets, mpRefs, clock>>

\* A submission that limitCheckout lets through (its count is not followed)
CreatePreference(body) ==
  /\ CreatePreferenceHandler(body)
  /\ UNCHANGED hits

\* app.post("/create_preference", limitCheckout, handler): the whole route
LimitedCreatePreference(ip, body) ==
  LET l == rateLimiter(hits.checkout, ip, Date_now, limitCheckoutMax)
  IN /\ l.hits[ip].count <= limitCheckoutMax + MaxOverLimit
     /\ hits' = [hits EXCEPT !.checkout = l.hits]
     /\ IF l.next
        THEN CreatePreferenceHandler(body)
        ELSE /\ ev' = [op |-> "create_preference", branch |-> "rate_limited", res |-> 429]
             /\ UNCHANGED <<env, orders, uuids, posts, gets, mpRefs, clock>>

\* Faulty variant: a preference request that failed is sent again
PreferenceReplyRetry(i, reply) ==
  /\ i \in 1..Len(posts)
  /\ LET r == createPreferenceResume(reply, posts[i].orderId)
     IN ev' = [op |-> "create_preference.resume", branch |-> r.branch, res |-> r.res,
               orderId |-> posts[i].orderId, body |-> r.body]
  /\ posts' = IF reply.kind = "ok" THEN RemoveAt(posts, i)
              ELSE Append(RemoveAt(posts, i), posts[i])
  /\ UNCHANGED <<env, orders, uuids, gets, mpRefs, clock, hits>>

PreferenceReply(i, reply) ==
  /\ i \in 1..Len(posts)
  /\ LET r == createPreferenceResume(reply, posts[i].orderId)
     IN ev' = [op |-> "create_preference.resume", branch |-> r.branch, res |-> r.res,
               orderId |-> posts[i].orderId, body |-> r.body]
  /\ posts' = RemoveAt(posts, i)
  /\ UNCHANGED <<env, orders, uuids, gets, mpRefs, clock, hits>>

\* The webhook handler, up to its await
WebhookHandler(n) ==
  LET r == webhookReceive(n, env.MP_ACCESS_TOKEN)
  IN /\ ev' = [op |-> "webhook", branch |-> r.branch, fx |-> r.fx]
     /\ IF r.branch = "fetch"
        THEN /\ Len(posts) + Len(gets) < MaxPending
             /\ gets' = Append(gets, [id |-> r.id, fx |-> r.fx])
        ELSE UNCHANGED gets
     /\ UNCHANGED <<env, orders, uuids, posts, mpRefs, clock>>

\* A notification that limitWebhook lets through (its count is not followed)
Webhook(n) ==
  /\ WebhookHandler(n)
  /\ UNCHANGED hits

\* app.post("/webhook/mercadopago", limitWebhook, handler): the whole route
LimitedWebhook(ip, n) ==
  LET l == rateLimiter(hits.webhook, ip, Date_now, limitWebhookMax)
  IN /\ l.hits[ip].count <= limitWebhookMax + MaxOverLimit
     /\ hits' = [hits EXCEPT !.webhook = l.hits]
     /\ IF l.next
        THEN WebhookHandler(n)
        ELSE /\ ev' = [op |-> "webhook", branch |-> "rate_limited", fx |-> <<"res 429">>]
             /\ UNCHANGED <<env, orders, uuids, posts, gets, mpRefs, clock>>

PaymentReply(i, reply) ==
  /\ i \in 1..Len(gets)
  /\ reply \in PaymentReplies(gets[i].id)
  /\ LET r == webhookResume(orders, reply, Date_now)
     IN /\ orders' = r.orders
        /\ ev' = [op |-> "webhook.resume", branch |-> r.branch, fx |-> r.fx,
                  orderId |-> r.orderId, old |-> r.old]
  /\ gets' = RemoveAt(gets, i)
  /\ UNCHANGED <<env, uuids, posts, mpRefs, clock, hits>>

GetOrder(id) ==
  /\ LET r == getOrder(orders, id)
     IN ev' = [op |-> "order", res |-> r.res, id |-> id, body |-> r.body]
  /\ UNCHANGED <<env, orders, uuids, posts, gets, mpRefs, clock, hits>>

\* An admin route: requireAdmin, then the handler, which answers with `list`,
\* computed from the store as it is; n is the number of entries it sends.
\* The HTML views send one table row per entry of their list.
Admin(op, authorization, list) ==
  /\ LET a == requireAdmin(env.ADMIN_TOKEN, authorization)
     IN ev' = IF a.next THEN [op |-> op, res |-> 200, n |-> Len(list), list |-> list]
              ELSE [op |-> op, res |-> a.res]
  /\ UNCHANGED <<env, orders, uuids, posts, gets, mpRefs, clock, hits>>

ListOrders(authorization) == Admin("orders", authorization, listOrders(orders))
ListPayments(authorization) == Admin("payments", authorization, listPayments(orders))
ViewOrders(authorization) == Admin("orders/view", authorization, viewOrders(orders))
ViewPayments(authorization) == Admin("payments/view", authorization, viewPayments(orders))

Next ==
  \/ Tick
  \/ \E body \in Bodies : CreatePreference(body)
  \/ \E i \in 1..Len(posts), reply \in PreferenceReplies : PreferenceReply(i, reply)
  \/ \E n \in Notifications : Webhook(n)
  \/ \E i \in 1..Len(gets) : \E reply \in PaymentReplies(gets[i].id) : PaymentReply(i, reply)
  \/ \E id \in 1..MaxOrders : GetOrder(id)
  \/ \E a \in Authorizations : ListOrders(a)
  \/ \E a \in Authorizations : ListPayments(a)
  \/ \E a \in Authorizations : ViewOrders(a)
  \/ \E a \in Authorizations : ViewPayments(a)

\* The handlers, for the requests the rate limiters let through.
Spec == Init /\ [][Next]_vars

\* The webhook route with its rate limiter in front, on a server that has
\* taken no order.
NextLimited ==
  \/ Tick
  \/ \E ip \in Ips, n \in Notifications : LimitedWebhook(ip, n)
  \/ \E i \in 1..Len(gets) : \E reply \in PaymentReplies(gets[i].id) : PaymentReply(i, reply)

SpecLimited == Init /\ [][NextLimited]_vars

\* ------------------------------------------------------------------------
\* POST /create_preference on its own, over a wider range of request bodies
\* ------------------------------------------------------------------------
RECURSIVE Repeat(_, _)
Repeat(x, n) == IF n = 0 THEN <<>> ELSE Append(Repeat(x, n - 1), x)

\* One item each: what the front end sends, and every way an item can be off
ItemVariants ==
  { Bread,
    [Bread EXCEPT !.title = <<>>],
    [Bread EXCEPT !.title = <<" ", " ">>],
    [Bread EXCEPT !.quantity = Num(0)],
    [Bread EXCEPT !.quantity = Num(-1)],
    [Bread EXCEPT !.quantity = Half(0)],
    [Bread EXCEPT !.quantity = Num(maxQuantity)],
    [Bread EXCEPT !.quantity = Half(maxQuantity)],
    [Bread EXCEPT !.quantity = Num(maxQuantity + 1)],
    [Bread EXCEPT !.quantity = Undef],
    [Bread EXCEPT !.quantity = JsNull],
    [Bread EXCEPT !.quantity = NaN],
    [Bread EXCEPT !.quantity = Infinity],
    [Bread EXCEPT !.unitprice = Num(0)],
    [Bread EXCEPT !.unitprice = Num(-1)],
    [Bread EXCEPT !.unitprice = Undef],
    [Bread EXCEPT !.unitprice = NaN],
    [Bread EXCEPT !.unitprice = Infinity] }

\* An item that is off, after or before one that is not
MixedLists ==
  { <<Bread, [Bread EXCEPT !.title = <<>>]>>,
    <<Bread, [Bread EXCEPT !.quantity = Num(0)]>>,
    <<[Bread EXCEPT !.unitprice = Num(0)], Bread>> }

ItemLists ==
  {<<>>, Repeat(Bread, maxItems), Repeat(Bread, maxItems + 1)}
    \cup {<<i>> : i \in ItemVariants}
    \cup MixedLists

ClientVariants ==
  { BodyDelivery,
    BodyPickup,
    [BodyDelivery EXCEPT !.shippingOption = <<>>],
    [BodyDelivery EXCEPT !.shippingOption = <<"express">>],
    [BodyPickup EXCEPT !.shippingOption = <<" ", "Pickup">>],
    [BodyDelivery EXCEPT !.delivery = NoDetail],
    [BodyDelivery EXCEPT !.delivery.name = <<" ">>],
    [BodyDelivery EXCEPT !.delivery.phone = <<>>],
    [BodyDelivery EXCEPT !.delivery.address = <<>>],
    [BodyPickup EXCEPT !.pickup = NoDetail],
    [BodyPickup EXCEPT !.pickup.name = <<" ">>],
    [BodyPickup EXCEPT !.pickup.phone = <<>>],
    [BodyPickup EXCEPT !.delivery = BodyDelivery.delivery, !.pickup = NoDetail] }

\* body.shippingCost as a client may send it
ClientShippingCosts == {Undef, Num(0), Num(1), Num(999999), Num(-4990)}

CheckoutBodies ==
  {[BodyDelivery EXCEPT !.items = l] : l \in ItemLists}
    \cup {[BodyPickup EXCEPT !.items = l] : l \in MixedLists}
    \cup ClientVariants
    \cup {[b EXCEPT !.shippingCost = c] : b \in {BodyDelivery, BodyPickup},
                                         c \in ClientShippingCosts}

\* The processor answers every preference request with a preference
CheckoutReplies == {reply \in PreferenceReplies : reply.kind = "ok"}

NextCheckout ==
  \/ Tick
  \/ \E body \in CheckoutBodies : CreatePreference(body)
  \/ \E i \in 1..Len(posts), reply \in CheckoutReplies : PreferenceReply(i, reply)

SpecCheckout == Init /\ [][NextCheckout]_vars

\* ------------------------------------------------------------------------
\* The admin routes behind requireAdmin, with and without ADMIN_TOKEN set
\* ------------------------------------------------------------------------
InitAdmin ==
  /\ env \in [MP_ACCESS_TOKEN : {"APP_USR-token"}, ADMIN_TOKEN : {"", "s3cret"}]
  /\ orders = <<>>
  /\ uuids = 0
  /\ posts = <<>>
  /\ gets = <<>>
  /\ mpRefs = {}
  /\ clock = 1
  /\ hits = [checkout |-> <<>>, webhook |-> <<>>]
  /\ ev = [op |-> "listen"]

\* Authorization headers: none, the secret, another credential, another
\* scheme, no credential, the scheme in lower case
AdminAuthorizations ==
  { <<>>,
    <<"Bearer ", "s3cret">>,
    <<"Bearer ", "guess">>,
    <<"Basic ", "s3cret">>,
    <<"Bearer ">>,
    <<"bearer ", "s3cret">> }

\* The notifications of a payment: no other topic or type, and an id
PaymentNotifications ==
  {n \in Notifications :
     /\ n.topic = "" /\ n.type \in {"", "payment"}
     /\ n.id # NoId \/ n.data_id # NoId \/ n.body_id # NoId}

\* The processor reports a payment of one of this server's orders, approved
ApprovedReplies(id) ==
  {reply \in PaymentReplies(id) :
     /\ reply.kind = "ok" /\ reply.data # Null
     /\ reply.data.status = "approved"
     /\ reply.data.external_reference \in mpRefs}

NextAdmin ==
  \/ \E body \in {BodyDelivery} : CreatePreference(body)
  \/ \E i \in 1..Len(posts), reply \in CheckoutReplies : PreferenceReply(i, reply)
  \/ \E n \in PaymentNotifications : Webhook(n)
  \/ \E i \in 1..Len(gets) : \E reply \in ApprovedReplies(gets[i].id) : PaymentReply(i, reply)
  \/ \E a \in AdminAuthorizations : ListOrders(a)
  \/ \E a \in AdminAuthorizations : ListPayments(a)
  \/ \E a \in AdminAuthorizations : ViewOrders(a)
  \/ \E a \in AdminAuthorizations : ViewPayments(a)

SpecAdmin == InitAdmin /\ [][NextAdmin]_vars

\* ------------------------------------------------------------------------
\* What the store can hold: create_preference over the wider range of
\* bodies, and the reconciler over every reply of the processor
\* ------------------------------------------------------------------------
\* A client that sends the data of both options
BothDetails ==
  { [BodyPickup EXCEPT !.delivery = BodyDelivery.delivery],
    [BodyDelivery EXCEPT !.pickup = BodyPickup.pickup] }

StoreBodies == CheckoutBodies \cup BothDetails

NextStore ==
  \/ \E body \in StoreBodies : CreatePreference(body)
  \/ \E i \in 1..Len(posts), reply \in CheckoutReplies : PreferenceReply(i, reply)
  \/ \E n \in PaymentNotifications : Webhook(n)
  \/ \E i \in 1..Len(gets) : \E reply \in PaymentReplies(gets[i].id) : PaymentReply(i, reply)

SpecStore == Init /\ [][NextStore]_vars

\* ------------------------------------------------------------------------
\* The reconciler on its own: orders are taken, payment notifications come
\* in, the processor answers the fetches in any order and with any payment
\* ------------------------------------------------------------------------
\* The server is up with its credential configured
InitReconcile ==
  /\ env = [MP_ACCESS_TOKEN |-> "APP_USR-token", ADMIN_TOKEN |-> ""]
  /\ orders = <<>>
  /\ uuids = 0
  /\ posts = <<>>
  /\ gets = <<>>
  /\ mpRefs = {}
  /\ clock = 1
  /\ hits = [checkout |-> <<>>, webhook |-> <<>>]
  /\ ev = [op |-> "listen"]

NextReconcile ==
  \/ Tick
  \/ \E body \in {BodyDelivery, BodyPickup} : CreatePreference(body)
  \/ \E i \in 1..Len(posts), reply \in CheckoutReplies : PreferenceReply(i, reply)
  \/ \E n \in PaymentNotifications : Webhook(n)
  \/ \E i \in 1..Len(gets) : \E reply \in PaymentReplies(gets[i].id) : PaymentReply(i, reply)

SpecReconcile == InitReconcile /\ [][NextReconcile]_vars

\* ------------------------------------------------------------------------
\* The two limited routes with their rate limiters in front.  A run sends its
\* requests to one of the two routes: one address sends as many as it likes,
\* a second one at most two per window; the clock runs over two windows.
\* ------------------------------------------------------------------------
BusyIp == "203.0.113.7"
QuietIp == "198.51.100.9"
LimiterIps == {BusyIp, QuietIp}

\* The second address has sent fewer than two requests in its window
Quiet(h, ip) ==
  (ip = QuietIp /\ ip \in DOMAIN h) => (h[ip].count < 2 \/ h[ip].resetAt <= Date_now)

\* A limiter that has counted no request
Idle(h) == DOMAIN h = {}

\* A submission that is refused by the handler, and one that is stored
LimiterBodies == {[BodyDelivery EXCEPT !.items = <<>>], BodyPickup}

\* A notification that is only acknowledged, and one that starts a fetch
LimiterNotifications ==
  { [topic |-> "merchant_order", type |-> "", id |-> 1, data_id |-> NoId, body_id |-> NoId],
    [topic |-> "", type |-> "payment", id |-> NoId, data_id |-> 1, body_id |-> NoId] }

\* The fetch times out
LimiterReplies(id) == {reply \in PaymentReplies(id) : reply.kind = "timeout"}

\* The store takes its first order
FirstOrder(body) == body = BodyPickup => orders = <<>>

LimiterTick ==
  /\ clock < MaxLimiterClock
  /\ clock' = clock + 1
  /\ UNCHANGED <<env, orders, uuids, posts, gets, mpRefs, hits, ev>>

NextLimiter ==
  \/ LimiterTick
  \/ \E ip \in LimiterIps, body \in LimiterBodies :
       /\ Quiet(hits.checkout, ip) /\ Idle(hits.webhook) /\ FirstOrder(body)
       /\ LimitedCreatePreference(ip, body)
  \/ \E ip \in LimiterIps, n \in LimiterNotifications :
       /\ Quiet(hits.webhook, ip) /\ Idle(hits.checkout)
       /\ LimitedWebhook(ip, n)
  \/ \E i \in 1..Len(posts), reply \in CheckoutReplies : PreferenceReply(i, reply)
  \/ \E i \in 1..Len(gets) : \E reply \in LimiterReplies(gets[i].id) : PaymentReply(i, reply)

SpecLimiter == InitReconcile /\ [][NextLimiter]_vars

\* ------------------------------------------------------------------------
\* Two notifications in flight together: the one of a first payment arrives,
\* and the one of a second payment arrives while the first fetch is pending;
\* the processor answers the two fetches in either order.
\* ------------------------------------------------------------------------
FirstPayment == MaxPaymentId
SecondPayment == MaxPaymentId + 1

\* POST /webhook/mercadopago?type=payment&data.id=<id>
PaymentNotification(id) ==
  [topic |-> "", type |-> "payment", id |-> NoId, data_id |-> id, body_id |-> NoId]

NextRace ==
  \/ CreatePreference(BodyDelivery)
  \/ \E i \in 1..Len(posts), reply \in CheckoutReplies : PreferenceReply(i, reply)
  \/ gets = <<>> /\ Webhook(PaymentNotification(FirstPayment))
  \/ /\ Len(gets) = 1 /\ gets[1].id = FirstPayment
     /\ Webhook(PaymentNotification(SecondPayment))
  \/ \E i \in 1..Len(gets) : \E reply \in PaymentReplies(gets[i].id) : PaymentReply(i, reply)

SpecRace == InitReconcile /\ [][NextRace]_vars

\* ------------------------------------------------------------------------
\* Every external call ends.  mpClient has a timeout of 15 s, so the promise
\* of a call settles: with a response, an error response, or the timeout
\* error.  The processor has payments only of orders whose preference request
\* it has answered (a payment is made at the init_point that answer carries),
\* and one fetch per payment is followed here.
\* ------------------------------------------------------------------------
InFlight(id) == \E i \in 1..Len(posts) : posts[i].orderId = id

FetchInFlight(id) == \E i \in 1..Len(gets) : gets[i].id = id

SettledReplies(id) ==
  {reply \in PaymentReplies(id) :
     (reply.kind = "ok" /\ reply.data # Null) => ~InFlight(reply.data.external_reference)}

\* A notification that starts no fetch, or the fetch of a payment none is in
\* flight for
OneFetchPerPayment(n) ==
  LET r == webhookReceive(n, env.MP_ACCESS_TOKEN)
  IN r.branch = "fetch" => ~FetchInFlight(r.id)

NextLive ==
  \/ \E body \in Bodies : CreatePreference(body)
  \/ \E i \in 1..Len(posts), reply \in PreferenceReplies : PreferenceReply(i, reply)
  \/ \E n \in Notifications : OneFetchPerPayment(n) /\ Webhook(n)
  \/ \E i \in 1..Len(gets) : \E reply \in SettledReplies(gets[i].id) : PaymentReply(i, reply)
  \/ \E id \in 1..MaxOrders : GetOrder(id)

EveryCallEnds ==
  /\ \A id \in 1..MaxOrders :
       WF_vars(\E i \in 1..Len(posts), reply \in PreferenceReplies :
                 posts[i].orderId = id /\ PreferenceReply(i, reply))
  /\ \A id \in PaymentIds :
       WF_vars(\E i \in 1..Len(gets) : \E reply \in SettledReplies(gets[i].id) :
                 gets[i].id = id /\ PaymentReply(i, reply))

SpecLive == InitReconcile /\ [][NextLive]_vars /\ EveryCallEnds

\* ------------------------------------------------------------------------
\* Properties
\* ------------------------------------------------------------------------
Reconciled(o) == "paymentId" \in DOMAIN o

FailedReplies ==
  {[kind |-> "ok", data |-> Null],
   [kind |-> "error", data |-> Null],
   [kind |-> "timeout", data |-> Null]}

\* C1: when create_preference has submitted createPreference, its order is
\* in the store with status "created"; every external reference the
\* processor was ever sent is a key of the store, also while the request
\* that sent it is still pending; and a reconciliation whose payment carries
\* such a reference never takes the unknown-order branch.
C1_StoredBeforePreference ==
  /\ mpRefs \subseteq MapKeys(orders)
  /\ \A i \in 1..Len(posts) : MapHas(orders, posts[i].orderId)
  /\ (ev.op = "create_preference" /\ ev.branch = "posted") =>
        /\ ev.orderId \in mpRefs
        /\ MapHas(orders, ev.orderId)
        /\ MapGet(orders, ev.orderId).status = "created"
  /\ (ev.op = "webhook.resume" /\ ev.branch = "no_order") => ev.orderId \notin mpRefs

\* An order reconciled while the create_preference request that stored it
\* is still waiting for the processor.
C1_Witness ==
  /\ ev.op = "webhook.resume" /\ ev.branch = "merged"
  /\ \E i \in 1..Len(posts) : posts[i].orderId = ev.orderId

\* C2 as stated: every webhook request is answered 200, however many came
\* before.
C2_AlwaysAcknowledged ==
  ev.op = "webhook" => (ev.fx # <<>> /\ ev.fx[1] = "res 200")

\* C2, amended: a webhook request that limitWebhook lets through (up to 120
\* per address in a 60 s window) is answered 200 before its payment fetch is
\* issued, whatever the notification and the configuration, and nothing is
\* sent after that; a request beyond the limit is answered 429 and fetches
\* nothing.
C2_AcknowledgedFirstWhenAdmitted ==
  /\ ev.op = "webhook" =>
       IF \E ip \in DOMAIN hits.webhook : hits.webhook[ip].count > limitWebhookMax
       THEN ev.branch = "rate_limited" /\ ev.fx = <<"res 429">>
       ELSE /\ ev.branch # "rate_limited"
            /\ ev.fx[1] = "res 200"
            /\ \A k \in 2..Len(ev.fx) : ev.fx[k] = "GET /v1/payments"
  /\ \A i \in 1..Len(gets) : gets[i].fx = <<"res 200", "GET /v1/payments">>
  /\ ev.op = "webhook.resume" => ev.fx = <<>>

\* The last request of a full window has been let through and fetches.
C2_Witness ==
  /\ ev.op = "webhook" /\ ev.branch = "fetch"
  /\ \E ip \in DOMAIN hits.webhook : hits.webhook[ip].count = limitWebhookMax

\* C3: a payment fetch that fails (error response, timeout) or a reply the
\* handler cannot process leaves the store as it was, is caught by the
\* handler, and sends nothing more to the notification sender.
C3_FetchFailureSwallowed ==
  [][ev'.op = "webhook.resume" => \A i \in 1..Len(gets) : \A reply \in FailedReplies :
       PaymentReply(i, reply) =>
         /\ orders' = orders
         /\ ev'.branch = "catch"
         /\ ev'.fx = <<>>
         /\ gets[i].fx[1] = "res 200"]_vars

C3_Witness ==
  /\ ev.op = "webhook.resume" /\ ev.branch = "catch"
  /\ Len(orders) >= 1
  /\ Len(gets) >= 1

\* C4: a reconciliation whose fetched payment has no external reference, or
\* one that is not the id of a stored order, leaves the store unchanged and
\* sends nothing; the sender has had its 200.
C4_UnknownOrderIgnored ==
  [][ev'.op = "webhook.resume" => \A i \in 1..Len(gets) : \A p \in Payments(gets[i].id) :
       (/\ p.external_reference = NoRef \/ ~MapHas(orders, p.external_reference)
        /\ PaymentReply(i, [kind |-> "ok", data |-> p])) =>
         /\ orders' = orders
         /\ ev'.fx = <<>>
         /\ gets[i].fx[1] = "res 200"]_vars

C4_Witness ==
  /\ ev.op = "webhook.resume" /\ ev.branch = "no_order"
  /\ ev.orderId = ForeignRef
  /\ Len(orders) >= 1

\* C5: a notification without a payment id, or whose topic (else type) is
\* present and is not "payment", or that arrives while MP_ACCESS_TOKEN is not
\* set, issues no payment fetch and leaves the store unchanged.
NoPaymentId(n) == n.id = NoId /\ n.data_id = NoId /\ n.body_id = NoId
OtherTopic(n) ==
  \/ n.topic \notin {"", "payment"}
  \/ n.topic = "" /\ n.type \notin {"", "payment"}

FrameFields == {"items", "shippingOption", "shippingCost", "delivery", "pickup", "createdAt"}
MergedFields == {"status", "paymentId", "paymentStatusDetail", "updatedAt"}

C6_MergeKeepsOtherFields ==
  [][(ev'.op = "webhook.resume" /\ orders' # orders) =>
       \A k \in MapKeys(orders) :
         /\ MapHas(orders', k)
         /\ DOMAIN MapGet(orders, k) \subseteq DOMAIN MapGet(orders', k)
         /\ DOMAIN MapGet(orders', k) \subseteq DOMAIN MapGet(orders, k) \cup MergedFields
         /\ \A f \in FrameFields : MapGet(orders', k)[f] = MapGet(orders, k)[f]]_vars

\* An order reconciled again, at a later time than it was reconciled first.
C6_Witness ==
  /\ ev.op = "webhook.resume" /\ ev.branch = "merged"
  /\ Reconciled(ev.old)
  /\ MapGet(orders, ev.orderId).updatedAt > ev.old.updatedAt

\* C7: reconciling a payment into a record that already carries that
\* payment's status, id and status_detail (the same notification, once more)
\* changes nothing but updatedAt, which does not go back.
Carries(o, p) ==
  /\ Reconciled(o)
  /\ o.status = p.status
  /\ o.paymentId = p.id
  /\ o.paymentStatusDetail = p.status_detail

C7_ReconcileIdempotent ==
  [][ev'.op = "webhook.resume" => \A i \in 1..Len(gets) : \A p \in Payments(gets[i].id) :
       (/\ MapHas(orders, p.external_reference)
        /\ Carries(MapGet(orders, p.external_reference), p)
        /\ PaymentReply(i, [kind |-> "ok", data |-> p])) =>
         LET k == p.external_reference
             once == MapGet(orders, k)
             twice == MapGet(orders', k)
         IN /\ twice = [once EXCEPT !.updatedAt = twice.updatedAt]
            /\ twice.updatedAt >= once.updatedAt
            /\ \A j \in MapKeys(orders) \ {k} : MapGet(orders', j) = MapGet(orders, j)]_vars

\* The same payment has been reconciled a second time, later.
C7_Witness ==
  /\ ev.op = "webhook.resume" /\ ev.branch = "merged"
  /\ Reconciled(ev.old)
  /\ LET o == MapGet(orders, ev.orderId)
     IN /\ o.status = ev.old.status
        /\ o.paymentId = ev.old.paymentId
        /\ o.paymentStatusDetail = ev.old.paymentStatusDetail
        /\ o.updatedAt > ev.old.updatedAt

ReadOps == {"order", "orders", "payments", "orders/view", "payments/view"}
CreateOps == {"create_preference", "create_preference.resume"}

C9_OnlyReconcilerMutates ==
  [][(ev'.op \in CreateOps \cup ReadOps) =>
       \A k \in MapKeys(orders) :
         MapHas(orders', k) /\ MapGet(orders', k) = MapGet(orders, k)]_vars

\* A second order has been stored beside a reconciled one.
C9_Witness ==
  /\ ev.op = "create_preference" /\ ev.branch = "posted"
  /\ \E k \in MapKeys(orders) : k # ev.orderId /\ Reconciled(MapGet(orders, k))

\* C10: the keys of the store only grow: a create_preference that passes
\* validation adds exactly one record, under an id that was not a key, and
\* no other run adds or removes a key.
C10_IdsOnlyGrow ==
  [][/\ MapKeys(orders) \subseteq MapKeys(orders')
     /\ Cardinality(MapKeys(orders')) = Len(orders')
     /\ IF ev'.op = "create_preference" /\ ev'.branch = "posted" /\ uuids' # uuids
        THEN /\ ev'.orderId \notin MapKeys(orders)
             /\ MapKeys(orders') = MapKeys(orders) \cup {ev'.orderId}
             /\ Len(orders') = Len(orders) + 1
        ELSE MapKeys(orders') = MapKeys(orders)]_vars

C10_Witness ==
  /\ Len(orders) >= 2
  /\ ev.op = "create_preference" /\ ev.branch = "posted"

\* ------------------------------------------------------------------------
\* Properties of create-order
\* ------------------------------------------------------------------------
\* A raw item with quantity <= 0, unit price <= 0 or no title
BadItem(i) ==
  \/ trim(i.title) = <<>>
  \/ i.quantity.k = "num" /\ LeZero(i.quantity)
  \/ i.unitprice.k = "num" /\ LeZero(i.unitprice)

HasBadItem(items) == \E k \in 1..Len(items) : BadItem(items[k])

Blank(v) == trim(v) = <<>>

\* The customer data the chosen shipping option needs is not all there
MissingClientData(body) ==
  IF normalizeShippingOption(body.shippingOption) = "delivery"
  THEN Blank(body.delivery.name) \/ Blank(body.delivery.phone) \/ Blank(body.delivery.address)
  ELSE Blank(body.pickup.name) \/ Blank(body.pickup.phone)

NothingStoredOrSent ==
  /\ orders' = orders
  /\ uuids' = uuids
  /\ posts' = posts
  /\ mpRefs' = mpRefs

\* C11 as stated: a submission with a bad item, or without the customer
\* data, is answered 400, stores nothing and calls nobody.
C11_InvalidAlways400 ==
  [][ev'.op = "create_preference" => \A body \in CheckoutBodies :
       ((HasBadItem(body.items) \/ MissingClientData(body)) /\ CreatePreference(body)) =>
         (ev'.res = 400 /\ NothingStoredOrSent)]_vars

\* C11, amended: such a submission stores no order and makes no external
\* call; it is answered 400 when MP_ACCESS_TOKEN is set, and 500 when it is
\* not (the credential is looked at before the body).
C11_InvalidRejected ==
  [][ev'.op = "create_preference" => \A body \in CheckoutBodies :
       ((HasBadItem(body.items) \/ MissingClientData(body)) /\ CreatePreference(body)) =>
         /\ NothingStoredOrSent
         /\ ev'.res = IF env.MP_ACCESS_TOKEN = "" THEN 500 ELSE 400]_vars

\* A submission has been refused for its items while the store holds an order
C11_Witness ==
  /\ ev.op = "create_preference" /\ ev.branch = "bad_items" /\ ev.res = 400
  /\ Len(orders) >= 1

\* A raw value that Number() turns into a finite number
Coerces(v) == v.k \in {"num", "null"}

TooMany(items) == Len(items) > maxItems

\* C12 as stated: the batch is refused if it is empty or longer than 50, or
\* if an item has an empty title, a quantity that is not a finite number
\* (also: missing) or is <= 0 or > 99, or a unit price that is not a finite
\* number or is <= 0.
ClaimedRefusal(i) ==
  \/ Blank(i.title)
  \/ ~Coerces(i.quantity)
  \/ LeZero(Number(i.quantity))
  \/ GreaterThan(Number(i.quantity), maxQuantity)
  \/ ~Coerces(i.unitprice)
  \/ LeZero(Number(i.unitprice))

C12_NonFiniteQuantityRefused ==
  [][ev'.op = "create_preference" => \A body \in CheckoutBodies :
       (/\ env.MP_ACCESS_TOKEN # ""
        /\ \/ Len(body.items) = 0
           \/ TooMany(body.items)
           \/ \E k \in 1..Len(body.items) : ClaimedRefusal(body.items[k])
        /\ CreatePreference(body)) =>
         (ev'.branch = "bad_items" /\ ev'.res = 400)]_vars

\* C12, amended: a quantity that is missing or does not coerce to a finite
\* number is replaced by 1 and the item is accepted with it; the batch is
\* refused exactly if it is empty or longer than 50, or an item has an empty
\* title, a quantity that coerces to a number <= 0 or > 99, or a unit price
\* that does not coerce to a finite number or is <= 0.
Refusal(i) ==
  \/ Blank(i.title)
  \/ Coerces(i.quantity) /\ LeZero(Number(i.quantity))
  \/ Coerces(i.quantity) /\ GreaterThan(Number(i.quantity), maxQuantity)
  \/ ~Coerces(i.unitprice)
  \/ LeZero(Number(i.unitprice))

C12_ItemsRefusedExactly ==
  [][ev'.op = "create_preference" => \A body \in CheckoutBodies :
       (env.MP_ACCESS_TOKEN # "" /\ CreatePreference(body)) =>
         /\ (ev'.branch = "bad_items" /\ ev'.res = 400) <=>
              \/ Len(body.items) = 0
              \/ TooMany(body.items)
              \/ \E k \in 1..Len(body.items) : Refusal(body.items[k])
         /\ ev'.branch = "posted" =>
              \A k \in 1..Len(body.items) :
                MapGet(orders', ev'.orderId).items[k].quantity =
                  IF Coerces(body.items[k].quantity) THEN Number(body.items[k].quantity)
                  ELSE Num(1)]_vars

\* An order has been stored whose first item got the quantity 1 (none of the
\* submitted items asks for 1)
C12_Witness ==
  /\ ev.op = "create_preference" /\ ev.branch = "posted"
  /\ MapGet(orders, ev.orderId).items[1].quantity = Num(1)
  /\ \A i \in ItemVariants : i.quantity # Num(1)

\* C13: the record a create-order stores has shippingCost DELIVERY_COST when
\* its option is delivery and 0 when it is pickup, whatever body.shippingCost
\* is; its items are the client's items, in order, followed by one line
\* "Envio (Delivery)" of quantity 1 and unit price shippingCost exactly when
\* shippingCost is positive.
DeliveryLine(cost) ==
  [title |-> <<"Envio (Delivery)">>, quantity |-> Num(1), unit_price |-> Num(cost),
   currency_id |-> "CLP"]

C13_ShippingCostServerSide ==
  [][(ev'.op = "create_preference" /\ ev'.branch = "posted") =>
       \A body \in CheckoutBodies : CreatePreference(body) =>
         LET o == MapGet(orders', ev'.orderId)
             n == Len(body.items)
         IN /\ o.shippingOption = normalizeShippingOption(body.shippingOption)
            /\ o.shippingCost = IF o.shippingOption = "delivery" THEN DELIVERY_COST ELSE 0
            /\ Len(o.items) = IF o.shippingCost > 0 THEN n + 1 ELSE n
            /\ \A k \in 1..n :
                 /\ o.items[k].title = trim(body.items[k].title)
                 /\ o.items[k].unit_price = Number(body.items[k].unitprice)
                 /\ o.items[k].currency_id = "CLP"
            /\ o.shippingCost > 0 => o.items[n + 1] = DeliveryLine(o.shippingCost)
            /\ \A c \in ClientShippingCosts :
                 CreatePreference([body EXCEPT !.shippingCost = c])]_vars

\* A delivery order and a pickup order are in the store
C13_Witness ==
  /\ ev.op = "create_preference" /\ ev.branch = "posted"
  /\ \E j, k \in MapKeys(orders) :
       /\ MapGet(orders, j).shippingOption = "delivery"
       /\ MapGet(orders, j).shippingCost = DELIVERY_COST
       /\ MapGet(orders, k).shippingOption = "pickup"
       /\ MapGet(orders, k).shippingCost = 0

\* C14: the record a valid create-order stores has status "created",
\* createdAt = updatedAt = the time of the request, and the eight fields of
\* lines 326-335 only (no paymentId, no paymentStatusDetail); every run that
\* is not a reconciliation merging into that order leaves the record as it
\* is, and get-order shows it so.
CreatedFields ==
  {"status", "items", "shippingOption", "shippingCost", "delivery", "pickup",
   "createdAt", "updatedAt"}

MergesInto(k) ==
  ev'.op = "webhook.resume" /\ ev'.branch = "merged" /\ ev'.orderId = k

C14_CreatedUntilReconciled ==
  [][/\ (ev'.op = "create_preference" /\ ev'.branch = "posted" /\ uuids' # uuids) =>
          LET o == MapGet(orders', ev'.orderId)
          IN /\ ~MapHas(orders, ev'.orderId)
             /\ o.status = "created"
             /\ o.createdAt = Date_now
             /\ o.updatedAt = o.createdAt
             /\ DOMAIN o = CreatedFields
     /\ \A k \in MapKeys(orders) :
          ~MergesInto(k) => (MapHas(orders', k) /\ MapGet(orders', k) = MapGet(orders, k))
     /\ (ev'.op = "order" /\ MapHas(orders, ev'.id)) =>
          /\ ev'.res = 200
          /\ \A f \in DOMAIN MapGet(orders, ev'.id) : ev'.body[f] = MapGet(orders, ev'.id)[f]
          /\ DOMAIN ev'.body = DOMAIN MapGet(orders, ev'.id) \cup {"detail", "detailText"}]_vars

\* get-order shows an order still as it was created, at a later time and
\* after another order has been reconciled
C14_Witness ==
  /\ ev.op = "order" /\ ev.res = 200
  /\ ev.body.status = "created"
  /\ ev.body.createdAt = ev.body.updatedAt
  /\ ev.body.createdAt < Date_now
  /\ \E k \in MapKeys(orders) : Reconciled(MapGet(orders, k))

\* C15 as stated: when the processor call fails or returns an error, the
\* order of that request is in the store with status "created", and the
\* caller gets the processor's status code and, as detail, its response body.
FailedPreferenceReplies == {reply \in PreferenceReplies : reply.kind # "ok"}

C15_ProcessorErrorSurfaced ==
  [][ev'.op = "create_preference.resume" =>
       \A i \in 1..Len(posts) : \A reply \in FailedPreferenceReplies :
         PreferenceReply(i, reply) =>
           /\ MapHas(orders', posts[i].orderId)
           /\ MapGet(orders', posts[i].orderId).status = "created"
           /\ ev'.res = reply.status
           /\ ev'.body.detail = reply.data]_vars

\* C15, amended: the failure leaves the store as it is: the order of that
\* request stays, unaltered, and is still "created" unless a reconciliation
\* has merged a payment into it meanwhile.  The caller gets the processor's
\* status code, and its response body as detail, when the processor answered
\* with an error and a non-empty body; the detail is the error's message
\* when the body is empty, and on a timeout (no response) the status is 500
\* and the detail the error's message.
C15_FailureKeepsOrder ==
  [][ev'.op = "create_preference.resume" =>
       \A i \in 1..Len(posts) : \A reply \in FailedPreferenceReplies :
         PreferenceReply(i, reply) =>
           /\ orders' = orders
           /\ MapHas(orders, posts[i].orderId)
           /\ LET o == MapGet(orders, posts[i].orderId)
              IN ~Reconciled(o) => (o.status = "created" /\ o.updatedAt = o.createdAt)
           /\ ev'.branch = "catch"
           /\ ev'.res = IF reply.kind = "error" THEN reply.status ELSE 500
           /\ ev'.body.detail = IF reply.kind = "error" /\ reply.data # "" THEN reply.data
                                ELSE errMessage(reply)
           /\ ev'.body.error = "No se pudo crear preferencia"]_vars

\* The processor has refused a preference with 400 and the order is still
\* there, beside another order
C15_Witness ==
  /\ ev.op = "create_preference.resume" /\ ev.branch = "catch" /\ ev.res = 400
  /\ MapHas(orders, ev.orderId)
  /\ MapGet(orders, ev.orderId).status = "created"
  /\ Len(orders) = 2

\* C16: while MP_ACCESS_TOKEN is not set, every create-order request,
\* whatever its body, is answered 500, stores nothing, generates no id and
\* sends nothing to the processor; the store stays empty.
C16_NoTokenFailsFast ==
  [][env.MP_ACCESS_TOKEN = "" =>
       /\ orders = <<>> /\ posts = <<>> /\ mpRefs = {}
       /\ \A body \in CheckoutBodies : CreatePreference(body) =>
            /\ ev'.branch = "no_token"
            /\ ev'.res = 500
            /\ NothingStoredOrSent]_vars

C16_Witness ==
  /\ env.MP_ACCESS_TOKEN = ""
  /\ ev.op = "create_preference" /\ ev.branch = "no_token" /\ ev.res = 500
  /\ clock > 1

\* ------------------------------------------------------------------------
\* Properties of the query routes
\* ------------------------------------------------------------------------
\* The place of an order in the store, in insertion order
Position(m, k) == CHOOSE i \in 1..Len(m) : m[i].key = k

\* Every entry of the list is a stored order: its stored fields, under its id
ShowsStored(list) ==
  \A i \in 1..Len(list) :
    /\ MapHas(orders, list[i].id)
    /\ \A f \in DOMAIN MapGet(orders, list[i].id) : list[i][f] = MapGet(orders, list[i].id)[f]

\* No order is listed twice
NoRepeats(list) == Cardinality({list[i].id : i \in 1..Len(list)}) = Len(list)

\* C17: GET /orders answers with every stored order, once, by createdAt
\* descending, orders of equal createdAt in the order of their insertion,
\* each with detail and detailText.
C17_ListOrdersSorted ==
  (ev.op = "orders" /\ ev.res = 200) =>
    /\ {ev.list[i].id : i \in 1..Len(ev.list)} = MapKeys(orders)
    /\ NoRepeats(ev.list)
    /\ ShowsStored(ev.list)
    /\ \A i \in 1..Len(ev.list) : {"detail", "detailText"} \subseteq DOMAIN ev.list[i]
    /\ \A i, j \in 1..Len(ev.list) : i < j =>
         \/ ev.list[i].createdAt > ev.list[j].createdAt
         \/ /\ ev.list[i].createdAt = ev.list[j].createdAt
            /\ Position(orders, ev.list[i].id) < Position(orders, ev.list[j].id)

\* The order stored last is listed first, and one of the two is reconciled
C17_Witness ==
  /\ ev.op = "orders" /\ ev.res = 200
  /\ Len(ev.list) = 2
  /\ ev.list[1].id = orders[2].key
  /\ ev.list[1].createdAt > ev.list[2].createdAt
  /\ \E i \in 1..2 : Reconciled(ev.list[i])

\* C18: GET /payments answers with exactly the stored orders whose status is
\* "approved", once each, by updatedAt descending (createdAt standing in for
\* an updatedAt that is absent).
UpdatedOrCreated(o) == IF "updatedAt" \in DOMAIN o THEN o.updatedAt ELSE o.createdAt

C18_ListPaymentsApproved ==
  (ev.op = "payments" /\ ev.res = 200) =>
    /\ {ev.list[i].id : i \in 1..Len(ev.list)} =
         {k \in MapKeys(orders) : MapGet(orders, k).status = "approved"}
    /\ NoRepeats(ev.list)
    /\ ShowsStored(ev.list)
    /\ \A i, j \in 1..Len(ev.list) : i < j =>
         UpdatedOrCreated(ev.list[i]) >= UpdatedOrCreated(ev.list[j])

\* Two approved orders created at the same time: the one approved later,
\* which was stored second, is listed first
C18_Witness ==
  /\ ev.op = "payments" /\ ev.res = 200
  /\ Len(ev.list) = 2
  /\ ev.list[1].id = orders[2].key
  /\ ev.list[1].updatedAt > ev.list[2].updatedAt
  /\ ev.list[1].createdAt = ev.list[2].createdAt

\* C19: GET /order/:id answers 404 with an error body when the id is not a
\* key of the store, and otherwise 200 with the record as it is stored now,
\* every field of it, plus detail and detailText.
C19_GetOrderOr404 ==
  ev.op = "order" =>
    IF MapHas(orders, ev.id)
    THEN LET o == MapGet(orders, ev.id)
         IN /\ ev.res = 200
            /\ DOMAIN ev.body = DOMAIN o \cup {"detail", "detailText"}
            /\ \A f \in DOMAIN o : ev.body[f] = o[f]
            /\ ev.body.detail.type = o.shippingOption
            /\ ev.body.detail.name =
                 IF o.shippingOption = "pickup" THEN o.pickup.name ELSE o.delivery.name
            /\ ev.body.detailText # <<>>
    ELSE /\ ev.res = 404
         /\ ev.body = [error |-> "Orden no encontrada"]

\* An id that is not stored has been asked for, beside a reconciled order
C19_Witness ==
  /\ ev.op = "order" /\ ev.res = 404
  /\ ~MapHas(orders, ev.id)
  /\ \E k \in MapKeys(orders) : Reconciled(MapGet(orders, k))

\* C20: with ADMIN_TOKEN set, GET /orders, /payments, /orders/view and
\* /payments/view are served exactly when the Authorization header is
\* "Bearer " followed by the secret, and are otherwise answered 401 without
\* any order; with ADMIN_TOKEN not set they are always served.  The store is
\* the same before and after.
BearerCredential(a) == IF Len(a) = 2 /\ a[1] = "Bearer " THEN a[2] ELSE ""

AdminRoute(a) == ListOrders(a) \/ ListPayments(a) \/ ViewOrders(a) \/ ViewPayments(a)

Served(e) == e.res = 200 /\ "list" \in DOMAIN e

Refused(e) == e.res = 401 /\ DOMAIN e = {"op", "res"}

C20_AdminGate ==
  [][ev'.op \in {"orders", "payments", "orders/view", "payments/view"} =>
       \A a \in AdminAuthorizations : AdminRoute(a) =>
         /\ orders' = orders
         /\ IF env.ADMIN_TOKEN = "" \/ BearerCredential(a) = env.ADMIN_TOKEN
            THEN Served(ev')
            ELSE Refused(ev')]_vars

\* A request for the approved payments has been refused while an approved
\* order is in the store
C20_Witness ==
  /\ env.ADMIN_TOKEN # ""
  /\ ev.op = "payments" /\ ev.res = 401
  /\ \E k \in MapKeys(orders) : MapGet(orders, k).status = "approved"

\* ------------------------------------------------------------------------
\* Properties of the stored records
\* ------------------------------------------------------------------------
\* C21: every stored order has the customer detail of its shipping option
\* and not the other one: a delivery order has a delivery detail with a name,
\* a phone and an address and no pickup detail; a pickup order has a pickup
\* detail with a name and a phone and no delivery detail.
C21_DetailMatchesOption ==
  \A k \in MapKeys(orders) :
    LET o == MapGet(orders, k)
    IN /\ o.shippingOption \in {"delivery", "pickup"}
       /\ o.shippingOption = "delivery" =>
            /\ o.pickup = Null
            /\ o.delivery # Null
            /\ o.delivery.name # <<>> /\ o.delivery.phone # <<>> /\ o.delivery.address # <<>>
       /\ o.shippingOption = "pickup" =>
            /\ o.delivery = Null
            /\ o.pickup # Null
            /\ o.pickup.name # <<>> /\ o.pickup.phone # <<>>

\* A reconciled pickup order beside a delivery order
C21_Witness ==
  /\ \E k \in MapKeys(orders) :
       MapGet(orders, k).shippingOption = "pickup" /\ Reconciled(MapGet(orders, k))
  /\ \E k \in MapKeys(orders) : MapGet(orders, k).shippingOption = "delivery"

\* C22: an order has paymentId and paymentStatusDetail only once a
\* reconciliation of that order has gone through (the fields appear in a run
\* of the reconciler that merges into that order, and stay); an order that
\* was never reconciled has neither field and has status "created".
C22_PaymentFieldsOnlyByReconciliation ==
  [][\A k \in MapKeys(orders') :
       LET o == MapGet(orders', k)
       IN IF "paymentId" \in DOMAIN o \/ "paymentStatusDetail" \in DOMAIN o
          THEN /\ {"paymentId", "paymentStatusDetail"} \subseteq DOMAIN o
               /\ \/ MapHas(orders, k) /\ Reconciled(MapGet(orders, k))
                  \/ /\ ev'.op = "webhook.resume" /\ ev'.branch = "merged"
                     /\ ev'.orderId = k
                     /\ MapHas(orders, k)
          ELSE o.status = "created"]_vars

\* A failed reconciliation has left one order without payment fields, beside
\* an order that has them
C22_Witness ==
  /\ ev.op = "webhook.resume" /\ ev.branch = "catch"
  /\ \E k \in MapKeys(orders) : ~Reconciled(MapGet(orders, k))
  /\ \E k \in MapKeys(orders) : Reconciled(MapGet(orders, k))

\* A stored quantity that is one of the integers 1..99
WholeQuantity(q) == q.k = "num" /\ ~q.half /\ q.n >= 1 /\ q.n <= maxQuantity

\* A stored unit price that is a finite number above zero
PositivePrice(x) == x.k = "num" /\ ~LeZero(x)

\* C23: every stored order has at least one item, and every item has a
\* title, a unit price above zero and a quantity that is an integer in 1..99.
C23_StoredItemsValid ==
  \A k \in MapKeys(orders) :
    LET items == MapGet(orders, k).items
    IN /\ Len(items) >= 1
       /\ \A j \in 1..Len(items) :
            /\ items[j].title # <<>>
            /\ PositivePrice(items[j].unit_price)
            /\ WholeQuantity(items[j].quantity)

\* ------------------------------------------------------------------------
\* Properties of concurrent reconciliations
\* ------------------------------------------------------------------------
\* A reconciliation writes a merge of a record that is not the one the store
\* holds when it writes
StaleWrite ==
  /\ gets' # gets
  /\ ev'.op = "webhook.resume" /\ ev'.branch = "merged"
  /\ ev'.old # MapGet(orders, ev'.orderId)

\* C24 as stated: of two reconciliations of one order in flight together,
\* the one resumed second has read the record before the first wrote its
\* merge, and writes a merge computed from that stale record.
C24_SecondMergeFromStaleRecord ==
  [][(/\ ev'.op = "webhook.resume" /\ ev'.branch = "merged"
      /\ Len(gets) = 2 /\ Len(gets') = 1) =>
       \A q \in Payments(gets'[1].id) :
         q.external_reference = ev'.orderId =>
           webhookResume(orders', [kind |-> "ok", data |-> q], Date_now).old
             = MapGet(orders, ev'.orderId)]_vars

\* C24, amended: the reconciler reads the record and writes its merge in one
\* run (no await between lines 435 and 442), so every merge is computed from
\* the record the store holds at that moment, also when another
\* reconciliation of the same order has written since the notification
\* arrived; the later merge replaces status, paymentId, paymentStatusDetail
\* and updatedAt of the earlier one.
C24_MergeFromCurrentRecord ==
  [][/\ ~StaleWrite
     /\ (gets' # gets /\ ev'.op = "webhook.resume" /\ ev'.branch = "merged") =>
          LET k == ev'.orderId
              new == MapGet(orders', k)
              p == [status |-> new.status, id |-> new.paymentId,
                    status_detail |-> new.paymentStatusDetail]
          IN /\ MapHas(orders, k)
             /\ new = mergePayment(MapGet(orders, k), p, Date_now)]_vars

\* Of two reconciliations in flight together, the one that arrived second
\* has written its merge over an earlier one with another status; the one
\* that arrived first is still waiting for its fetch
C24_Witness ==
  /\ ev.op = "webhook.resume" /\ ev.branch = "merged"
  /\ Reconciled(ev.old)
  /\ ev.old.status # MapGet(orders, ev.orderId).status
  /\ MapGet(orders, ev.orderId).paymentId = SecondPayment
  /\ Len(gets) = 1 /\ gets[1].id = FirstPayment

\* C25: after a reconciliation that finds its order, the order's status,
\* paymentId and paymentStatusDetail are those of the payment the processor
\* returned to that reconciliation, whatever notification started it and
\* whatever the record held: a status on record, "approved" included, is
\* replaced, and a detail on record is blanked when the payment has none.
C25_FetchedPaymentWins ==
  [][(ev'.op = "webhook.resume" /\ gets' # gets) =>
     \A i \in 1..Len(gets) : \A p \in Payments(gets[i].id) :
       (/\ MapHas(orders, p.external_reference)
        /\ gets' = RemoveAt(gets, i)
        /\ PaymentReply(i, [kind |-> "ok", data |-> p])) =>
         LET new == MapGet(orders', p.external_reference)
         IN /\ new.status = p.status
            /\ new.paymentId = p.id
            /\ new.paymentStatusDetail = p.status_detail]_vars

\* An approved order with a detail has been reconciled with a payment that
\* is pending and has no detail
C25_Witness ==
  /\ ev.op = "webhook.resume" /\ ev.branch = "merged"
  /\ Reconciled(ev.old)
  /\ ev.old.status = "approved" /\ ev.old.paymentStatusDetail # Undefined
  /\ MapGet(orders, ev.orderId).status = "pending"
  /\ MapGet(orders, ev.orderId).paymentStatusDetail = Undefined

\* ------------------------------------------------------------------------
\* Properties of the external calls
\* ------------------------------------------------------------------------
\* The number of payment fetches a run of the webhook handler has issued
Fetches(fx) == Cardinality({k \in 1..Len(fx) : fx[k] = "GET /v1/payments"})

\* C26: no external call is made twice.  A create_preference request puts
\* at most one preference request in flight and a notification at most one
\* payment fetch; the run that takes the answer of a call (a response, an
\* error or a timeout) takes that call out of flight and issues no other;
\* no other route calls the processor.
C26_NoRetry ==
  [][clock' = clock =>
       CASE ev'.op = "create_preference" ->
              /\ gets' = gets
              /\ IF ev'.branch = "posted"
                 THEN posts' = Append(posts, [orderId |-> ev'.orderId])
                 ELSE posts' = posts
         [] ev'.op = "create_preference.resume" ->
              /\ gets' = gets
              /\ mpRefs' = mpRefs
              /\ \E i \in 1..Len(posts) :
                   posts[i].orderId = ev'.orderId /\ posts' = RemoveAt(posts, i)
         [] ev'.op = "webhook" ->
              /\ posts' = posts
              /\ Fetches(ev'.fx) <= 1
              /\ Len(gets') = Len(gets) + Fetches(ev'.fx)
         [] ev'.op = "webhook.resume" ->
              /\ posts' = posts
              /\ \E i \in 1..Len(gets) : gets' = RemoveAt(gets, i)
         [] OTHER -> posts' = posts /\ gets' = gets]_vars

\* A preference request has timed out and nothing is in flight
C26_Witness ==
  /\ ev.op = "create_preference.resume" /\ ev.branch = "catch" /\ ev.res = 500
  /\ posts = <<>> /\ gets = <<>>
  /\ Len(orders) >= 1

TimeoutReply == [kind |-> "timeout", status |-> 0, data |-> ""]

\* Requests that can be served while a handler waits for the processor: a
\* lookup, a submission, a notification
OthersServed ==
  /\ \A id \in 1..MaxOrders : ENABLED GetOrder(id)
  /\ ENABLED CreatePreference([BodyDelivery EXCEPT !.items = <<>>])
  /\ ENABLED Webhook([topic |-> "merchant_order", type |-> "", id |-> 1,
                      data_id |-> NoId, body_id |-> NoId])
  /\ (uuids < MaxOrders /\ Len(posts) + Len(gets) < MaxPending) =>
       ENABLED CreatePreference(BodyPickup)

HoldsPayment(o, p) ==
  /\ o.status = p.status
  /\ o.paymentId = p.id
  /\ o.paymentStatusDetail = p.status_detail

\* C28: with the fetches of two notifications in flight together, whichever
\* is answered first (the one that arrived first or the one that arrived
\* second) merges its payment, and when the other is then answered with a
\* payment of the same order, status, paymentId and paymentStatusDetail are
\* those of that other payment: the fetch that completes last wins, in
\* either order of completion.
C28_LastCompletedWins ==
  [][(ev'.op = "webhook.resume" /\ Len(gets) = 2 /\ Len(gets') = 1) =>
     \A i \in 1..2 : \A p \in Payments(gets[i].id) :
       (/\ MapHas(orders, p.external_reference)
        /\ PaymentReply(i, [kind |-> "ok", data |-> p])) =>
         LET k == p.external_reference
         IN /\ HoldsPayment(MapGet(orders', k), p)
            /\ gets' = <<gets[3 - i]>>
            /\ \A q \in Payments(gets[3 - i].id) :
                 q.external_reference = k =>
                   LET last == webhookResume(orders', [kind |-> "ok", data |-> q], Date_now)
                   IN /\ last.branch = "merged"
                      /\ HoldsPayment(MapGet(last.orders, k), q)]_vars

\* The notification that arrived second has been merged first; the one that
\* arrived first is still waiting for its fetch and will be merged over it
C28_Witness ==
  /\ ev.op = "webhook.resume" /\ ev.branch = "merged"
  /\ MapGet(orders, ev.orderId).paymentId = SecondPayment
  /\ MapGet(orders, ev.orderId).status = "approved"
  /\ Len(gets) = 1 /\ gets[1].id = FirstPayment

\* C29: a reconciliation changes at most one record, the one stored under
\* the external reference of the payment it fetched; every other record is
\* what it was, and the store has the same ids, in the same order; a fetch
\* that fails, or the handler's run before the fetch, changes none.
C29_ReconcileTouchesOneOrder ==
  [][/\ ev'.op = "webhook" => orders' = orders
     /\ (ev'.op = "webhook.resume" /\ gets' # gets) =>
          \A i \in 1..Len(gets) : \A reply \in PaymentReplies(gets[i].id) :
            (gets' = RemoveAt(gets, i) /\ PaymentReply(i, reply)) =>
              /\ Len(orders') = Len(orders)
              /\ \A j \in 1..Len(orders) :
                   /\ orders'[j].key = orders[j].key
                   /\ orders'[j].value # orders[j].value =>
                        /\ reply.kind = "ok" /\ reply.data # Null
                        /\ orders[j].key = reply.data.external_reference]_vars

\* A payment has been merged into one of two orders; the other has not been
\* reconciled
C29_Witness ==
  /\ ev.op = "webhook.resume" /\ ev.branch = "merged"
  /\ Len(orders) = 2
  /\ \E k \in MapKeys(orders) : k # ev.orderId /\ ~Reconciled(MapGet(orders, k))

\* C30: the clock never going back, every stored order has
\* updatedAt >= createdAt at all times, its createdAt is never changed, and
\* its updatedAt never decreases.
C30_TimestampsOrdered ==
  [][\A k \in MapKeys(orders') :
       LET new == MapGet(orders', k)
       IN /\ new.updatedAt >= new.createdAt
          /\ MapHas(orders, k) =>
               /\ new.createdAt = MapGet(orders, k).createdAt
               /\ new.updatedAt >= MapGet(orders, k).updatedAt]_vars

\* An order reconciled when it was created has been reconciled again later
C30_Witness ==
  /\ ev.op = "webhook.resume" /\ ev.branch = "merged"
  /\ Reconciled(ev.old)
  /\ ev.old.updatedAt = ev.old.createdAt
  /\ MapGet(orders, ev.orderId).updatedAt > MapGet(orders, ev.orderId).createdAt

\* What one request of address ip does to a limiter's map h (h2 afterwards),
\* and whether the request reaches the handler
WindowStep(h, h2, ip, max, admitted) ==
  /\ DOMAIN h2 = DOMAIN h \cup {ip}
  /\ \A k \in DOMAIN h \ {ip} : h2[k] = h[k]
  /\ IF ip \notin DOMAIN h \/ h[ip].resetAt <= Date_now
     THEN /\ admitted
          /\ h2[ip] = [count |-> 1, resetAt |-> Date_now + windowMs]
     ELSE /\ h2[ip] = [count |-> h[ip].count + 1, resetAt |-> h[ip].resetAt]
          /\ admitted <=> h[ip].count < max
  /\ admitted => h2[ip].count <= max

\* The request was answered 429 and the handler's state is as before
Answered429 ==
  /\ ev'.branch = "rate_limited"
  /\ IF ev'.op = "webhook" THEN ev'.fx = <<"res 429">> ELSE ev'.res = 429
  /\ UNCHANGED <<orders, uuids, posts, gets, mpRefs>>

\* C31: for each (client address, path) key, at most max requests reach the
\* handler within one window (30 for create-order, 120 for the webhook,
\* window 60 s); every further request in that window is answered 429 without
\* running the handler and without changing the order store, and the first
\* request at or after the window's reset time is admitted and starts a new
\* window with count 1.
C31_RateLimitWindow ==
  [][hits' # hits =>
       LET admitted == ev'.branch # "rate_limited"
       IN /\ admitted \/ Answered429
          /\ \E ip \in LimiterIps :
               \/ /\ ev'.op = "create_preference"
                  /\ hits'.webhook = hits.webhook
                  /\ WindowStep(hits.checkout, hits'.checkout, ip, limitCheckoutMax, admitted)
               \/ /\ ev'.op = "webhook"
                  /\ hits'.checkout = hits.checkout
                  /\ WindowStep(hits.webhook, hits'.webhook, ip, limitWebhookMax, admitted)]_vars

\* The only address that has sent submissions stored an order in a first
\* window, started a second window at the reset time of the first, and is
\* refused there once more than max submissions are counted
C31_Witness ==
  /\ DOMAIN hits.checkout = {BusyIp}
  /\ Len(orders) = 1 /\ orders[1].value.createdAt = TickMs
  /\ hits.checkout[BusyIp] = [count |-> limitCheckoutMax + 1, resetAt |-> 3 * TickMs + windowMs]
  /\ ev.op = "create_preference" /\ ev.branch = "rate_limited"
====
